---------------------------- MODULE Spec2Model ----------------------------
(***************************************************************************)
(* A model of the tinyclaw agent orchestration core: the tool-calling      *)
(* loop of src/tui/mod.rs, the token forwarding between a streaming        *)
(* provider and the UI, and the chat providers of src/providers.           *)
(*                                                                         *)
(* Three specifications share the module:                                  *)
(*   SpecTurn      one call of AgentState::handle_message                  *)
(*   SpecStream    one streaming provider call with its forwarder task     *)
(*   SpecProvider  one chat call on one provider, SSE parsing included     *)
(***************************************************************************)
EXTENDS Naturals, Integers, Sequences, FiniteSets, TLC

VARIABLES
    \* ---- agent turn (src/tui/mod.rs) ----
    tpc,            \* position of handle_message / agent_turn_with_events
    history,        \* AgentState.history: sequence of ChatMessage
    iteration,      \* the for-loop counter of agent_turn_with_events
    provider_calls, \* number of provider calls made by the turn
    script,         \* the replies the provider has returned, in order
    response,       \* the provider's reply of the current iteration
    tool_calls,     \* calls parsed from the current response
    handles,        \* the JoinHandles of the spawned tool tasks
    tool_results,   \* the blocks collected so far in this iteration
    completion,     \* the order in which this iteration's tasks ended
    turn_result,    \* the Result returned by agent_turn_with_events
    terminal_event, \* the Done / Error event sent by handle_message
    \* ---- token forwarding of one streaming call (src/tui/mod.rs 288-303) ----
    spc,            \* "streaming" while chat_with_history_stream runs
    deltas,         \* the text deltas of the stream, in network order
    sent_n,         \* how many of them the provider has sent on token_tx
    stream_q,       \* the stream channel (stream_tx, stream_rx)
    fwd_pc,         \* the forwarder task: "recv", "send", "cancelled"
    fwd_token,      \* the token the forwarder holds between recv and send
    abort_called,   \* forwarder.abort() has been called
    event_q,        \* the event channel (event_tx, event_rx)
    observed,       \* the Token events the UI has received, in order
    lost,           \* tokens dropped together with the forwarder task
    \* ---- one chat call on one provider (src/providers) ----
    prov,           \* "anthropic", "openai" or "openrouter"
    credential,     \* the provider's api_key / credential field
    has_tracker,    \* usage_tracker is Some
    entry,          \* the entry point called
    ppc,            \* "constructed", "sent", "streaming", "done"
    http_requests,  \* HTTP requests sent
    bytes,          \* the bytes of the response body
    pos,            \* how many of them chunk() has delivered
    buf,            \* the line buffer (buf / buffer)
    full,           \* full_response / full_text
    sink,           \* the tokens sent on token_tx, in order
    last_usage,     \* OpenRouter's last_usage
    tracker,        \* the counters of the usage tracker
    done_seen,      \* a 'data: [DONE]' line has been processed
    presult,        \* the Result of the call
    \* ---- concurrent UsageTracker::add calls (src/providers/traits.rs 73-118) ----
    atomics,        \* the four AtomicU64 cells shared by the clones
    add_usage,      \* the TokenUsage each caller passes to add
    add_pc,         \* how many of its four fetch_adds each caller has done
    \* ---- concurrent file tool calls (src/tools/file_patch.rs, search_files.rs) ----
    files,          \* the contents of the regular files, by canonical path
    fcalls,         \* the tool and arguments of each dispatched call
    fpc,            \* the await each call has reached
    resolved,       \* the canonical path each call has obtained
    new_content,    \* the content a file_patch call is about to write
    fops,           \* per call: the policy checks and file-system calls made
    fresult,        \* the Result each call has returned
    \* ---- a session of several turns (src/tui/mod.rs 154-213, 420-433) ----
    untrimmed,      \* the history handed to trim_history
    turns,          \* user messages handled so far in the session
    msg_seq,        \* the number of messages ever pushed to the history
    \* ---- parse_tool_calls applied to a response (src/tui/mod.rs 232-265) ----
    segments,       \* the pieces the response is made of, in source order
    parse_pc,       \* "call" before parse_tool_calls runs, "returned" after
    parse_result,         \* the (text, calls) pair parse_tool_calls returned
    \* ---- events sent on event_tx (src/tui/mod.rs 28-34) ----
    agent_events,   \* the AgentEvents sent since the last provider reply, in send order
    \* ---- App::event_loop and the spawned turn tasks (src/tui/app.rs 87-177) ----
    agent_opt,      \* "Some" while the UI loop holds the AgentState, else "None"
    agent_running,  \* the flag of the UI loop
    ui_input,       \* the text typed into the input line
    ui_tasks,       \* per spawned task: 0 not spawned, 1 spawned, 2 user message pushed, 3 handle_message returned, 4 ended
    agent_return_q, \* the AgentStates in the return channel
    agent_history,  \* the number of non-system messages in the AgentState's history
    \* ---- the session file of the agent's session id (src/tui/mod.rs 197-205) ----
    session_file,   \* whether sessions/<session_id>.json exists, and the messages it holds
    \* ---- the session store: session.rs save / update / load / delete ----
    store_files,    \* per session id, the file sessions/<id>.json: whether it exists and its text
    clock,          \* the seconds now_iso() reads
    store_op,       \* the last call of the store, its arguments and what it returned
    \* ---- search_files on a directory tree (src/tools/search_files.rs 98-187) ----
    search_tree,    \* the entries of the searched directory, in read_dir order
    search_pc,      \* "call" before the walk, "returned" after
    search_out,     \* the result of the search: count, truncation note and reported lines
    \* ---- events recorded by the observer (src/tui/mod.rs 363-367) ----
    observer_events \* the ObserverEvent::ToolCall events recorded in the turn, in order

turnVars == <<tpc, history, iteration, provider_calls, script, response,
              tool_calls, handles, tool_results, completion, turn_result,
              terminal_event>>

streamVars == <<spc, deltas, sent_n, stream_q, fwd_pc, fwd_token, abort_called,
                event_q, observed, lost>>

provVars == <<prov, credential, has_tracker, entry, ppc, http_requests, bytes,
              pos, buf, full, sink, last_usage, tracker, done_seen, presult>>

trackerVars == <<atomics, add_usage, add_pc>>

fileVars == <<files, fcalls, fpc, resolved, new_content, fops, fresult>>

sessionVars == <<untrimmed, turns, msg_seq>>

parseVars == <<segments, parse_pc, parse_result>>

eventsVars == <<agent_events>>

uiVars == <<agent_opt, agent_running, ui_input, ui_tasks, agent_return_q, agent_history>>

savedVars == <<session_file>>

storeVars == <<store_files, clock, store_op>>

searchVars == <<search_tree, search_pc, search_out>>

observerVars == <<observer_events>>

vars == <<turnVars, streamVars, provVars, trackerVars, fileVars, sessionVars, parseVars, eventsVars, uiVars, savedVars, storeVars, searchVars, observerVars>>

\* what the actions of each specification leave alone
notTurnVars == <<streamVars, provVars, trackerVars, fileVars, sessionVars, parseVars, eventsVars, uiVars, savedVars, storeVars, searchVars, observerVars>>
notTurnObserverVars == <<streamVars, provVars, trackerVars, fileVars, sessionVars, parseVars, eventsVars, uiVars, savedVars, storeVars, searchVars>>
notStreamVars == <<turnVars, provVars, trackerVars, fileVars, sessionVars, parseVars, eventsVars, uiVars, savedVars, storeVars, searchVars, observerVars>>
notProvVars == <<turnVars, streamVars, trackerVars, fileVars, sessionVars, parseVars, eventsVars, uiVars, savedVars, storeVars, searchVars, observerVars>>
notTrackerVars == <<turnVars, streamVars, provVars, fileVars, sessionVars, parseVars, eventsVars, uiVars, savedVars, storeVars, searchVars, observerVars>>
notFileVars == <<turnVars, streamVars, provVars, trackerVars, sessionVars, parseVars, eventsVars, uiVars, savedVars, storeVars, searchVars, observerVars>>
notSessionVars == <<turnVars, streamVars, provVars, trackerVars, fileVars, parseVars, eventsVars, uiVars, savedVars, storeVars, searchVars, observerVars>>
notTurnSessionVars == <<streamVars, provVars, trackerVars, fileVars, parseVars, eventsVars, uiVars, savedVars, storeVars, searchVars, observerVars>>
notTurnEventsVars == <<streamVars, provVars, trackerVars, fileVars, sessionVars, parseVars, uiVars, savedVars, storeVars, searchVars, observerVars>>
notUiEventsVars == <<turnVars, streamVars, provVars, trackerVars, fileVars, sessionVars, parseVars, savedVars, storeVars, searchVars, observerVars>>
notStreamEventsVars == <<turnVars, provVars, trackerVars, fileVars, sessionVars, parseVars, uiVars, savedVars, storeVars, searchVars, observerVars>>
notTurnSessionSavedVars == <<streamVars, provVars, trackerVars, fileVars, parseVars, eventsVars, uiVars, storeVars, searchVars, observerVars>>
notParseVars == <<turnVars, streamVars, provVars, trackerVars, fileVars, sessionVars, eventsVars, uiVars, savedVars, storeVars, searchVars, observerVars>>
notEventsVars == <<turnVars, streamVars, provVars, trackerVars, fileVars, sessionVars, parseVars, uiVars, savedVars, storeVars, searchVars, observerVars>>
notUiVars == <<turnVars, streamVars, provVars, trackerVars, fileVars, sessionVars, parseVars, eventsVars, savedVars, storeVars, searchVars, observerVars>>
notSavedVars == <<turnVars, streamVars, provVars, trackerVars, fileVars, sessionVars, parseVars, eventsVars, uiVars, storeVars, searchVars, observerVars>>
notStoreVars == <<turnVars, streamVars, provVars, trackerVars, fileVars, sessionVars, parseVars, eventsVars, uiVars, savedVars, searchVars, observerVars>>
notSearchVars == <<turnVars, streamVars, provVars, trackerVars, fileVars, sessionVars, parseVars, eventsVars, uiVars, savedVars, storeVars, observerVars>>
notObserverVars == <<turnVars, streamVars, provVars, trackerVars, fileVars, sessionVars, parseVars, eventsVars, uiVars, savedVars, storeVars, searchVars>>

-----------------------------------------------------------------------------
(* Text.  A string of the program is a sequence of tokens; a token is a    *)
(* record [k, v, a].  Markers, JSON objects, runs of whitespace and runs   *)
(* of other text are single tokens, so that find() of a marker is the search *)
(* for a token and trim() removes whitespace tokens at both ends.          *)

Tok(k, v, a) == [k |-> k, v |-> v, a |-> a]

OPEN  == Tok("open", "<tool_call>", "")
CLOSE == Tok("close", "</tool_call>", "")
WS    == Tok("ws", " ", "")
NL    == Tok("nl", "\n", "")
BAD   == Tok("text", "{not json", "")
Text(s) == Tok("text", s, "")
\* A JSON object {"name": name, "arguments": args}
Json(name, args) == Tok("json", name, args)

RECURSIVE TrimStart(_)
TrimStart(s) ==
    IF s # <<>> /\ s[1].k \in {"ws", "nl"} THEN TrimStart(Tail(s)) ELSE s

RECURSIVE TrimEnd(_)
TrimEnd(s) ==
    IF s # <<>> /\ s[Len(s)].k \in {"ws", "nl"}
    THEN TrimEnd(SubSeq(s, 1, Len(s) - 1)) ELSE s

Trim(s) == TrimEnd(TrimStart(s))

\* str::find of a marker: the index of its first occurrence, 0 for None
RECURSIVE FindFrom(_, _, _)
FindFrom(s, k, i) ==
    IF i > Len(s) THEN 0
    ELSE IF s[i].k = k THEN i ELSE FindFrom(s, k, i + 1)

Find(s, k) == FindFrom(s, k, 1)

\* Vec<String>::join("\n")
RECURSIVE JoinLines(_)
JoinLines(parts) ==
    IF parts = <<>> THEN <<>>
    ELSE IF Len(parts) = 1 THEN parts[1]
    ELSE parts[1] \o <<NL>> \o JoinLines(Tail(parts))

-----------------------------------------------------------------------------
(* parse_tool_calls                                                        *)

\* serde_json::from_str::<Value>(inner.trim()) succeeds
\* a test that takes any non-blank content for a JSON value
IsJsonValueLenient(inner) == Trim(inner) # <<>>

IsJsonValue(inner) == Len(Trim(inner)) = 1 /\ Trim(inner)[1].k = "json"

\* a call built from the wrong key: the name is lost
ParsedToolCallNameless(inner) ==
    [name |-> "", arguments |-> Trim(inner)[1].a]

ParsedToolCall(inner) ==
    [name |-> Trim(inner)[1].v, arguments |-> Trim(inner)[1].a]

\* an end of parsing that drops what is left of the response
ParseFinishTruncating(remaining, text_parts, calls) ==
    [text |-> JoinLines(text_parts), calls |-> calls]

ParseFinish(remaining, text_parts, calls) ==
    LET parts == IF Trim(remaining) # <<>>
                 THEN Append(text_parts, Trim(remaining)) ELSE text_parts
    IN  [text |-> JoinLines(parts), calls |-> calls]

RECURSIVE ParseLoop(_, _, _)
ParseLoop(remaining, text_parts, calls) ==
    LET start == Find(remaining, "open") IN
    IF start = 0 THEN ParseFinish(remaining, text_parts, calls)
    ELSE
      LET before == SubSeq(remaining, 1, start - 1)
          parts1 == IF Trim(before) # <<>>
                    THEN Append(text_parts, Trim(before)) ELSE text_parts
          rest   == SubSeq(remaining, start, Len(remaining))
          end    == Find(rest, "close")
      IN  IF end = 0 THEN ParseFinish(remaining, parts1, calls)
          ELSE
            LET inner  == SubSeq(rest, 2, end - 1)
                calls1 == IF IsJsonValue(inner)
                          THEN Append(calls, ParsedToolCall(inner)) ELSE calls
            IN  ParseLoop(SubSeq(rest, end + 1, Len(rest)), parts1, calls1)

parse_tool_calls(resp) == ParseLoop(resp, <<>>, <<>>)

-----------------------------------------------------------------------------
(* Tools.  The arguments of a call name the case of the tool's code that   *)
(* the call takes (the parameter that is missing, what the network or the  *)
(* security policy answers).                                               *)

ToolOk(success, output, error) ==
    [kind |-> "Ok", success |-> success, output |-> output, error |-> error]
ToolErr(e) ==
    [kind |-> "Err", success |-> FALSE, output |-> "", error |-> e]

NoError == "<None>"

\* WebFetchTool::execute
WebFetchExecute(args) ==
    CASE args = "{}" -> ToolErr("Missing 'url' parameter")
      [] args = "ftp://x" ->
            ToolOk(FALSE, "", "URL must start with http:// or https://")
      [] args = "http://ok" -> ToolOk(TRUE, "HTTP 200 OK body", NoError)
      [] args = "http://utf8" -> ToolOk(TRUE, "HTTP 200 OK long body", NoError)
      [] args = "http://404" -> ToolOk(FALSE, "HTTP 404 Not Found", "HTTP 404")
      [] OTHER -> ToolOk(FALSE, "", "Request failed")

\* FilePatchTool::execute, up to the syntactic path check
FilePatchExecute(args) ==
    CASE args = "{}" -> ToolErr("Missing 'path' parameter")
      [] args = "../../etc/passwd" ->
            ToolOk(FALSE, "", "Path not allowed by security policy: ../../etc/passwd")
      [] OTHER -> ToolOk(TRUE, "Patched a.txt", NoError)

Registry == {"web_fetch", "file_patch"}

ToolExecute(name, args) ==
    IF name = "web_fetch" THEN WebFetchExecute(args) ELSE FilePatchExecute(args)

\* outputs longer than 120 bytes, and those of them in which byte 120 is
\* inside a multi-byte character
LongOutputs == {"HTTP 200 OK long body"}
NoCharBoundaryAt120 == {"HTTP 200 OK long body"}

-----------------------------------------------------------------------------
(* The agent loop: agent_turn_with_events and handle_message               *)

MAX_TOOL_ITERATIONS == 10
MAX_HISTORY_MESSAGES == 50

ChatMessage(role, content) == [role |-> role, content |-> content]

SystemPrompt == <<Text("system prompt")>>
UserInput == <<Text("user input")>>

\* the replies of the scripted provider
ReplyA ==
    <<Text("plan"), WS, OPEN, Json("web_fetch", "http://ok"), CLOSE, NL,
      OPEN, NL, Json("web_fetch", "ftp://x"), NL, CLOSE,
      OPEN, Json("web_fetch", "http://utf8"), CLOSE>>
ReplyB ==
    <<OPEN, Json("web_fetch", "{}"), CLOSE, WS, OPEN, Json("nope", "{}"), CLOSE,
      Text("and"), OPEN, Json("file_patch", "../../etc/passwd"), CLOSE>>
ReplyFinal == <<WS, Text("the answer"), NL>>
ReplyMalformed == <<OPEN, BAD, CLOSE>>
ReplyNoteMalformed == <<Text("note"), NL, OPEN, BAD, CLOSE, WS>>

ToolReplies == {ReplyA, ReplyB}
Replies == ToolReplies \cup {ReplyFinal, ReplyMalformed, ReplyNoteMalformed}

\* a lookup that falls back to a registered tool for a name it does not know
FindToolWithFallback(name) == IF name \in Registry THEN name ELSE "web_fetch"

\* tools.iter().find(|t| t.name() == name)
FindTool(name) == IF name \in Registry THEN name ELSE "<None>"

\* the match on tool.execute(args).await
RenderOutput(name, r) ==
    IF r.kind = "Ok" /\ r.success THEN r.output
    ELSE IF r.kind = "Ok"
         THEN "Error: " \o (IF r.error # NoError THEN r.error ELSE r.output)
         ELSE "Error executing " \o name \o ": " \o r.error

\* the body of one spawned tool task: the handle's final state
TaskBody(call) ==
    LET tool   == FindTool(call.name)
        output == IF tool # "<None>"
                  THEN RenderOutput(call.name, ToolExecute(tool, call.arguments))
                  ELSE "Unknown tool: " \o call.name
        \* &output[..120] panics when byte 120 is not a char boundary
        panics == output \in LongOutputs /\ output \in NoCharBoundaryAt120
    IN  [st        |-> IF panics THEN "panicked" ELSE "finished",
         name      |-> call.name,
         output    |-> output,
         executed  |-> tool # "<None>",
         \* the tool ran and returned Ok(ToolResult { success: true, .. })
         succeeded |-> /\ tool # "<None>"
                       /\ ToolExecute(tool, call.arguments).kind = "Ok"
                       /\ ToolExecute(tool, call.arguments).success]

Spawned == [st |-> "running", name |-> "", output |-> "", executed |-> FALSE,
            succeeded |-> FALSE]

\* the outputs of the model's tools that begin with the characters "Error"
ErrorOutputs ==
    {"Error executing web_fetch: Missing 'url' parameter",
     "Error executing file_patch: Missing 'path' parameter",
     "Error: URL must start with http:// or https://",
     "Error: HTTP 404",
     "Error: Request failed",
     "Error: Path not allowed by security policy: ../../etc/passwd"}

\* str::starts_with("Error")
StartsWithError(output) == output \in ErrorOutputs

\* success: !output.starts_with("Error")
ToolCallSuccess(h) == ~StartsWithError(h.output)

\* ObserverEvent::ToolCall { tool, duration, success }
ObserverToolCall(h) == [tool |-> h.name, success |-> ToolCallSuccess(h)]

\* observer.record_event in the Ok arm of the match on handle.await
Recorded(events, h) ==
    IF h.st = "panicked" THEN events ELSE Append(events, ObserverToolCall(h))

\* the handles awaited from the last to the first
NextHandleReversed(hs, results) == Len(hs) - Len(results)

\* for handle in handles: the handle awaited next
NextHandle(hs, results) == Len(results) + 1

\* an await that returns whether or not the task has ended
JoinReadyAtOnce(h) == TRUE

\* handle.await returns once the task has completed or panicked
JoinReady(h) == h.st # "running"

\* a JoinError treated like a finished task
CollectBlockIgnoringPanic(h) == Tok("tool_result", h.name, h.output)

\* the match on handle.await: the block written to tool_results
CollectBlock(h) ==
    IF h.st = "panicked"
    THEN Tok("tool_result", "unknown", "Task panicked")
    ELSE Tok("tool_result", h.name, h.output)

\* the result blocks pushed without their "[Tool results]" heading
ToolResultsMessageUnlabelled(results) == ChatMessage("user", results)

\* ChatMessage::user(format!("[Tool results]\n{}", tool_results.join("\n")))
ToolResultsMessage(results) ==
    ChatMessage("user", <<Text("[Tool results]"), NL>> \o results)

\* an inclusive upper bound of the loop
LoopExhaustedInclusive(it) == it > MAX_TOOL_ITERATIONS

\* for _iteration in 0..MAX_TOOL_ITERATIONS: the loop is over
LoopExhausted(it) == it >= MAX_TOOL_ITERATIONS

ExceededError == <<Text("Agent exceeded maximum tool iterations (10)")>>
ProviderFailure == <<Text("provider error")>>

NoResult == [st |-> "none", v |-> <<>>]
Ok(v) == [st |-> "Ok", v |-> v]
Err(v) == [st |-> "Err", v |-> v]

\* a trim that keeps the oldest messages instead of the newest
TrimHistoryKeepOldest(h) ==
    LET has_system == h # <<>> /\ h[1].role = "system"
        keep == MAX_HISTORY_MESSAGES + (IF has_system THEN 1 ELSE 0)
    IN  IF Len(h) <= keep THEN h ELSE SubSeq(h, 1, keep)

\* a trim that drains from the front whatever the first message is
TrimHistoryDroppingSystem(h) ==
    IF Len(h) <= MAX_HISTORY_MESSAGES + 1 THEN h
    ELSE SubSeq(h, Len(h) - MAX_HISTORY_MESSAGES + 1, Len(h))

trim_history(h) ==
    LET has_system == h # <<>> /\ h[1].role = "system"
        non_system_count == IF has_system THEN Len(h) - 1 ELSE Len(h)
    IN  IF non_system_count <= MAX_HISTORY_MESSAGES THEN h
        ELSE LET start == IF has_system THEN 1 ELSE 0
                 to_remove == non_system_count - MAX_HISTORY_MESSAGES
             IN  SubSeq(h, 1, start) \o SubSeq(h, start + to_remove + 1, Len(h))

\* enum AgentEvent, by its variant and the tool it names
AgentEvent(ev, name) == [ev |-> ev, name |-> name]

\* the ToolStart events sent from the last call to the first
RECURSIVE ToolStartsReversed(_)
ToolStartsReversed(calls) ==
    IF calls = <<>> THEN <<>>
    ELSE ToolStartsReversed(Tail(calls))
             \o <<AgentEvent("ToolStart", Head(calls).name)>>

\* the ToolStart events of an iteration, one per parsed call
RECURSIVE ToolStarts(_)
ToolStarts(calls) ==
    IF calls = <<>> THEN <<>>
    ELSE <<AgentEvent("ToolStart", Head(calls).name)>> \o ToolStarts(Tail(calls))

\* a handle_message that reports every turn as done
TerminalEventAlwaysDone(result) == AgentEvent("Done", "")

\* the match on the result of agent_turn_with_events
TerminalEvent(result) ==
    IF result.st = "Ok" THEN AgentEvent("Done", "") ELSE AgentEvent("Error", "")

\* a final text that is the narrative even when the narrative is empty
FinalTextNarrativeOnly(r, text) == text

\* if text.is_empty() { response } else { text }
FinalText(r, text) == IF text = <<>> THEN r ELSE text

\* handle_message up to the call of agent_turn_with_events
HandleMessage ==
    /\ tpc = "idle"
    /\ history' = Append(history, ChatMessage("user", UserInput))
    /\ tpc' = "call"
    /\ UNCHANGED <<iteration, provider_calls, script, response, tool_calls,
                   handles, tool_results, completion, turn_result,
                   terminal_event>>
    /\ UNCHANGED notTurnVars

\* the provider call fails: result? returns the error
ProviderError ==
    /\ tpc = "call"
    /\ provider_calls' = provider_calls + 1
    /\ turn_result' = Err(ProviderFailure)
    /\ tpc' = "returned"
    /\ UNCHANGED <<history, iteration, script, response, tool_calls, handles,
                   tool_results, completion, terminal_event>>
    /\ UNCHANGED notTurnVars

\* the provider replies; the reply is parsed and, if it holds calls, one task
\* per call is spawned
ProviderReply(r) ==
    /\ tpc = "call"
    /\ provider_calls' = provider_calls + 1
    /\ script' = Append(script, r)
    /\ response' = r
    /\ LET parsed == parse_tool_calls(r) IN
       IF parsed.calls = <<>>
       THEN /\ history' = Append(history, ChatMessage("assistant", r))
            /\ turn_result' = Ok(FinalText(r, parsed.text))
            /\ tpc' = "returned"
            /\ UNCHANGED <<tool_calls, handles, tool_results, completion>>
       ELSE /\ tool_calls' = parsed.calls
            /\ handles' = [i \in 1..Len(parsed.calls) |-> Spawned]
            /\ tool_results' = <<>>
            /\ completion' = <<>>
            /\ tpc' = "join"
            /\ UNCHANGED <<history, turn_result>>
    \* the non-streaming branch sends the whole response as one Token, then
    \* one ToolStart per call before any task is spawned; the log is cut here
    \* to the events of the iteration that begins
    /\ agent_events' = <<AgentEvent("Token", "")>>
                          \o ToolStarts(parse_tool_calls(r).calls)
    /\ UNCHANGED <<iteration, terminal_event>>
    /\ UNCHANGED notTurnEventsVars

\* one spawned tool task runs to its end, whenever it is scheduled
TaskRun(i) ==
    /\ i \in 1..Len(handles)
    /\ handles[i].st = "running"
    /\ handles' = [handles EXCEPT ![i] = TaskBody(tool_calls[i])]
    /\ completion' = Append(completion, i)
    \* the task sends its ToolResult unless the preview slice panicked
    /\ agent_events' =
           IF TaskBody(tool_calls[i]).st = "panicked" THEN agent_events
           ELSE Append(agent_events, AgentEvent("ToolResult", tool_calls[i].name))
    /\ UNCHANGED <<tpc, history, iteration, provider_calls, script, response,
                   tool_calls, tool_results, turn_result, terminal_event>>
    /\ UNCHANGED notTurnEventsVars

\* handle.await returns for the handle the loop is waiting on; after the last
\* handle the two messages are pushed and the for loop takes its next step
Collect ==
    /\ tpc = "join"
    /\ LET k == NextHandle(handles, tool_results) IN
       /\ k \in 1..Len(handles)
       /\ JoinReady(handles[k])
       /\ observer_events' = Recorded(observer_events, handles[k])
       /\ LET results1 == Append(tool_results, CollectBlock(handles[k])) IN
          IF Len(results1) < Len(handles)
          THEN /\ tool_results' = results1
               /\ UNCHANGED <<tpc, history, iteration, turn_result>>
          ELSE /\ tool_results' = results1
               /\ history' = history \o <<ChatMessage("assistant", response),
                                          ToolResultsMessage(results1)>>
               /\ iteration' = iteration + 1
               /\ IF LoopExhausted(iteration + 1)
                  THEN turn_result' = Err(ExceededError) /\ tpc' = "returned"
                  ELSE turn_result' = turn_result /\ tpc' = "call"
    /\ UNCHANGED <<provider_calls, script, response, tool_calls, handles,
                   completion, terminal_event>>
    /\ UNCHANGED notTurnObserverVars

\* handle_message after agent_turn_with_events has returned
FinishTurn ==
    /\ tpc = "returned"
    /\ IF turn_result.st = "Ok"
       THEN history' = trim_history(history)
       ELSE history' = history
    /\ terminal_event' = TerminalEvent(turn_result).ev
    /\ agent_events' = Append(agent_events, TerminalEvent(turn_result))
    /\ tpc' = "done"
    /\ UNCHANGED <<iteration, provider_calls, script, response, tool_calls,
                   handles, tool_results, completion, turn_result>>
    /\ UNCHANGED notTurnEventsVars

TurnStep ==
    \/ HandleMessage
    \/ ProviderError
    \/ \E r \in Replies : ProviderReply(r)
    \/ \E i \in 1..3 : TaskRun(i)
    \/ Collect
    \/ FinishTurn

-----------------------------------------------------------------------------
(* Token forwarding: the streaming branch of agent_turn_with_events.  The  *)
(* provider sends each delta on the stream channel, the spawned forwarder  *)
(* moves tokens from the stream channel to the event channel, and the loop *)
(* aborts the forwarder as soon as the provider call has returned.         *)

STREAM_CHANNEL_CAPACITY == 64
EVENT_CHANNEL_CAPACITY == 64

MaxDeltas == 3
DeltaTexts == {"Hel", "lo", " world", "!"}

\* the streams of at most MaxDeltas deltas, no two deltas of a stream equal
DeltaStreams ==
    UNION {{d \in [1..n -> DeltaTexts] : \A i, j \in 1..n : i # j => d[i] # d[j]}
           : n \in 0..MaxDeltas}

NoToken == "<none>"

\* AgentEvent::Token(token)
TokenEvent(t) == [type |-> "Token", payload |-> t]

\* a receiver that takes the newest message first
DequeueNewest(q) == [item |-> q[Len(q)], rest |-> SubSeq(q, 1, Len(q) - 1)]

\* Receiver::recv on a channel that holds messages
Dequeue(q) == [item |-> Head(q), rest |-> Tail(q)]

\* token_tx.send(content).await in the provider: waits while the channel is full
ProviderSend ==
    /\ spc = "streaming"
    /\ sent_n < Len(deltas)
    /\ Len(stream_q) < STREAM_CHANNEL_CAPACITY
    /\ stream_q' = Append(stream_q, deltas[sent_n + 1])
    /\ sent_n' = sent_n + 1
    /\ UNCHANGED <<spc, deltas, fwd_pc, fwd_token, abort_called, event_q,
                   observed, lost>>
    /\ UNCHANGED notStreamVars

\* the provider call returns (the stream is over, or the transport failed
\* after some deltas) and the loop calls forwarder.abort()
ProviderReturn(ok) ==
    /\ spc = "streaming"
    /\ ok => sent_n = Len(deltas)
    /\ spc' = IF ok THEN "returned" ELSE "failed"
    /\ abort_called' = TRUE
    /\ UNCHANGED <<deltas, sent_n, stream_q, fwd_pc, fwd_token, event_q,
                   observed, lost>>
    /\ UNCHANGED notStreamVars

\* stream_rx.recv().await yields a token
ForwarderRecv ==
    /\ fwd_pc = "recv"
    /\ stream_q # <<>>
    /\ fwd_token' = Dequeue(stream_q).item
    /\ stream_q' = Dequeue(stream_q).rest
    /\ fwd_pc' = "send"
    /\ UNCHANGED <<spc, deltas, sent_n, abort_called, event_q, observed, lost>>
    /\ UNCHANGED notStreamVars

\* event_tx2.send(AgentEvent::Token(token)).await: waits while the channel is full
ForwarderSend ==
    /\ fwd_pc = "send"
    /\ Len(event_q) < EVENT_CHANNEL_CAPACITY
    /\ event_q' = Append(event_q, TokenEvent(fwd_token))
    /\ agent_events' = Append(agent_events, AgentEvent("Token", ""))
    /\ fwd_token' = NoToken
    /\ fwd_pc' = "recv"
    /\ UNCHANGED <<spc, deltas, sent_n, stream_q, abort_called, observed, lost>>
    /\ UNCHANGED notStreamEventsVars

\* the abort takes effect: the task is dropped at an await, with the token it
\* holds and with the receiver and everything still queued in it
ForwarderCancelled ==
    /\ abort_called
    /\ fwd_pc \in {"recv", "send"}
    /\ fwd_pc' = "cancelled"
    /\ lost' = (IF fwd_token = NoToken THEN <<>> ELSE <<fwd_token>>) \o stream_q
    /\ fwd_token' = NoToken
    /\ stream_q' = <<>>
    /\ UNCHANGED <<spc, deltas, sent_n, abort_called, event_q, observed>>
    /\ UNCHANGED notStreamVars

\* the event the loop sends next once the provider call has returned: the
\* first ToolStart of the iteration, or the Done or Error of handle_message
LoopEvents == {"ToolStart", "Done", "Error"}

\* the first send on event_tx after forwarder.abort()
LoopSend(ev) ==
    /\ ev \in (IF spc = "returned" THEN {"ToolStart", "Done"}
               ELSE IF spc = "failed" THEN {"Error"} ELSE {})
    /\ \A i \in 1..Len(agent_events) : agent_events[i].ev = "Token"
    /\ Len(event_q) < EVENT_CHANNEL_CAPACITY
    /\ event_q' = Append(event_q, [type |-> ev, payload |-> ""])
    /\ agent_events' = Append(agent_events, AgentEvent(ev, ""))
    /\ UNCHANGED <<spc, deltas, sent_n, stream_q, fwd_pc, fwd_token,
                   abort_called, observed, lost>>
    /\ UNCHANGED notStreamEventsVars

\* the UI drains the event channel: event_rx.try_recv(); a Token is appended
\* to the text on display
UiReceive ==
    /\ event_q # <<>>
    /\ observed' = IF Head(event_q).type = "Token"
                   THEN Append(observed, Head(event_q).payload) ELSE observed
    /\ event_q' = Tail(event_q)
    /\ UNCHANGED <<spc, deltas, sent_n, stream_q, fwd_pc, fwd_token,
                   abort_called, lost>>
    /\ UNCHANGED notStreamVars

StreamStep ==
    \/ ProviderSend
    \/ \E ok \in BOOLEAN : ProviderReturn(ok)
    \/ ForwarderRecv
    \/ ForwarderSend
    \/ ForwarderCancelled
    \/ \E ev \in LoopEvents : LoopSend(ev)
    \/ UiReceive

-----------------------------------------------------------------------------
(* Chat providers.  The body of a streaming response is a sequence of bytes; *)
(* a byte is written as the character it encodes, and "C3" "A9" are the two *)
(* bytes of one two-byte character.  Decoded text is a sequence of          *)
(* characters.  A JSON event is written in a compact form:                  *)
(*    { c1 .. cn }   an event carrying the text delta c1..cn (n >= 0)       *)
(*    { # }          an event carrying usage and no text                    *)
(* and any other payload is not JSON.                                       *)

LEAD == "C3"
CONT == "A9"
TwoByteChar == "e-acute"
REPLACEMENT_CHARACTER == "U+FFFD"

\* String::from_utf8_lossy
RECURSIVE from_utf8_lossy(_)
from_utf8_lossy(chunk) ==
    IF chunk = <<>> THEN <<>>
    ELSE IF chunk[1] = LEAD /\ Len(chunk) >= 2 /\ chunk[2] = CONT
         THEN <<TwoByteChar>> \o from_utf8_lossy(SubSeq(chunk, 3, Len(chunk)))
    ELSE IF chunk[1] \in {LEAD, CONT}
         THEN <<REPLACEMENT_CHARACTER>> \o from_utf8_lossy(Tail(chunk))
    ELSE <<chunk[1]>> \o from_utf8_lossy(Tail(chunk))

Whitespace == {" ", "\r", "\t", "\n"}

RECURSIVE TrimCharsStart(_)
TrimCharsStart(s) ==
    IF s # <<>> /\ s[1] \in Whitespace THEN TrimCharsStart(Tail(s)) ELSE s

RECURSIVE TrimCharsEnd(_)
TrimCharsEnd(s) ==
    IF s # <<>> /\ s[Len(s)] \in Whitespace
    THEN TrimCharsEnd(SubSeq(s, 1, Len(s) - 1)) ELSE s

\* str::trim
TrimChars(s) == TrimCharsEnd(TrimCharsStart(s))

\* str::trim_end_matches('\r')
RECURSIVE TrimEndCR(_)
TrimEndCR(s) ==
    IF s # <<>> /\ s[Len(s)] = "\r"
    THEN TrimEndCR(SubSeq(s, 1, Len(s) - 1)) ELSE s

\* str::find('\n'): the index of the first newline, 0 for None
RECURSIVE FindNewline(_, _)
FindNewline(s, i) ==
    IF i > Len(s) THEN 0
    ELSE IF s[i] = "\n" THEN i ELSE FindNewline(s, i + 1)

DataPrefix == <<"d", "a", "t", "a", ":", " ">>
DoneSentinel == <<"[", "D", "O", "N", "E", "]">>

\* str::starts_with
StartsWith(s, prefix) ==
    Len(s) >= Len(prefix) /\ SubSeq(s, 1, Len(prefix)) = prefix

ContentChars == {"x", "y", TwoByteChar, REPLACEMENT_CHARACTER}

NoUsage == [present |-> FALSE, prompt_tokens |-> 0, completion_tokens |-> 0,
            total_tokens |-> 0]
EventUsage == [present |-> TRUE, prompt_tokens |-> 3, completion_tokens |-> 2,
               total_tokens |-> 5]

\* a parser that takes a payload that is not JSON for a text delta
ParseEventLenient(data) ==
    [valid |-> TRUE, has_text |-> TRUE, text |-> <<"x">>,
     usage |-> [present |-> FALSE, prompt_tokens |-> 0, completion_tokens |-> 0,
                total_tokens |-> 0]]

NotJson == [valid |-> FALSE, has_text |-> FALSE, text |-> <<>>, usage |-> NoUsage]

\* serde_json::from_str of a payload, and the fields the providers read from it
ParseEvent(data) ==
    LET d == TrimChars(data) IN
    IF Len(d) < 2 \/ d[1] # "{" \/ d[Len(d)] # "}" THEN NotJson
    ELSE LET body == SubSeq(d, 2, Len(d) - 1) IN
         IF body = <<"#">>
         THEN [valid |-> TRUE, has_text |-> FALSE, text |-> <<>>,
               usage |-> EventUsage]
         ELSE IF \A i \in 1..Len(body) : body[i] \in ContentChars
         THEN [valid |-> TRUE, has_text |-> TRUE, text |-> body,
               usage |-> NoUsage]
         ELSE NotJson

ZeroTracker == [prompt_tokens |-> 0, completion_tokens |-> 0,
                total_tokens |-> 0, request_count |-> 0]

\* UsageTracker::add
TrackerAdd(t, u) ==
    [prompt_tokens     |-> t.prompt_tokens + u.prompt_tokens,
     completion_tokens |-> t.completion_tokens + u.completion_tokens,
     total_tokens      |-> t.total_tokens + u.total_tokens,
     request_count     |-> t.request_count + 1]

\* track_usage: adds when both the tracker and the usage are Some
TrackUsage(st, u) ==
    IF st.has_tracker /\ u.present
    THEN [st EXCEPT !.tracker = TrackerAdd(st.tracker, u)] ELSE st

\* the local state of chat_with_history_stream while it reads the body
StreamState(b, f, s, u, t, ht) ==
    [buf |-> b, full |-> f, sink |-> s, last_usage |-> u, tracker |-> t,
     has_tracker |-> ht, status |-> "running", done_seen |-> FALSE]

\* OpenRouter: the inner 'while let Some(newline_pos) = buf.find' loop
RECURSIVE OpenRouterLines(_)
OpenRouterLines(st) ==
    LET newline_pos == FindNewline(st.buf, 1) IN
    IF newline_pos = 0 THEN st
    ELSE
      LET line == TrimChars(SubSeq(st.buf, 1, newline_pos - 1))
          st1  == [st EXCEPT !.buf = SubSeq(st.buf, newline_pos + 1, Len(st.buf))]
      IN
      IF line = <<>> \/ line[1] = ":" THEN OpenRouterLines(st1)
      ELSE IF ~StartsWith(line, DataPrefix) THEN OpenRouterLines(st1)
      ELSE
        LET data == SubSeq(line, Len(DataPrefix) + 1, Len(line)) IN
        IF TrimChars(data) = DoneSentinel
        THEN [TrackUsage(st1, st1.last_usage) EXCEPT
                 !.done_seen = TRUE,
                 !.status = IF st1.full = <<>> THEN "err_empty" ELSE "ok"]
        ELSE
          LET sc == ParseEvent(data) IN
          IF ~sc.valid THEN OpenRouterLines(st1)
          ELSE
            LET st2 == IF sc.usage.present
                       THEN [st1 EXCEPT !.last_usage = sc.usage] ELSE st1
                st3 == IF sc.has_text /\ sc.text # <<>>
                       THEN [st2 EXCEPT !.full = st2.full \o sc.text,
                                        !.sink = Append(st2.sink, sc.text)]
                       ELSE st2
            IN  OpenRouterLines(st3)

\* Anthropic: the inner 'while let Some(line_end) = buffer.find' loop
RECURSIVE AnthropicLines(_)
AnthropicLines(st) ==
    LET line_end == FindNewline(st.buf, 1) IN
    IF line_end = 0 THEN st
    ELSE
      LET line == TrimEndCR(SubSeq(st.buf, 1, line_end - 1))
          st1  == [st EXCEPT !.buf = SubSeq(st.buf, line_end + 1, Len(st.buf))]
      IN
      IF ~StartsWith(line, DataPrefix) THEN AnthropicLines(st1)
      ELSE
        LET data == SubSeq(line, Len(DataPrefix) + 1, Len(line)) IN
        IF data = DoneSentinel
        THEN [st1 EXCEPT !.done_seen = TRUE]       \* break
        ELSE
          LET event == ParseEvent(data) IN
          IF ~event.valid THEN AnthropicLines(st1)
          ELSE IF event.has_text
          THEN AnthropicLines([st1 EXCEPT !.full = st1.full \o event.text,
                                          !.sink = Append(st1.sink, event.text)])
          ELSE AnthropicLines(TrackUsage(st1, event.usage))

\* one iteration of 'while let Some(chunk) = response.chunk().await?'
ProcessChunk(p, st, chunk) ==
    LET st1 == [st EXCEPT !.buf = st.buf \o from_utf8_lossy(chunk)] IN
    IF p = "openrouter" THEN OpenRouterLines(st1) ELSE AnthropicLines(st1)

\* after the chunk loop: chunk() has returned None
FinishStream(p, st) ==
    IF p = "openrouter"
    THEN [TrackUsage(st, st.last_usage) EXCEPT
             !.status = IF st.full = <<>> THEN "err_empty" ELSE "ok"]
    ELSE [st EXCEPT !.status = "ok"]

Providers == {"anthropic", "openai", "openrouter"}
EntryPoints == {"chat_with_system", "chat_with_history", "chat_with_history_stream"}

\* providers that override chat_with_history_stream (supports_streaming is true)
SupportsStreaming(p) == p \in {"anthropic", "openrouter"}

NoKey == "<None>"
ApiKeys == {NoKey, "", "  ", " sk-key ", "sk-key"}

\* str::trim of a key
TrimKey(k) == IF k = "  " THEN "" ELSE IF k = " sk-key " THEN "sk-key" ELSE k

\* AnthropicProvider::with_base_url, OpenAiProvider::new, OpenRouterProvider::new:
\* the credential field of the constructed provider
NewCredential(p, api_key) ==
    IF p = "anthropic"
    THEN IF api_key = NoKey \/ TrimKey(api_key) = "" THEN NoKey ELSE TrimKey(api_key)
    ELSE api_key

\* a credential test that lets every call through
HasCredentialAlways(cred) == TRUE

\* self.api_key.as_ref().ok_or_else(..)? / self.credential.as_ref().ok_or_else(..)?
HasCredential(cred) == cred # NoKey

NoCallResult == [st |-> "none", text |-> <<>>, err |-> ""]
CallOk(text) == [st |-> "Ok", text |-> text, err |-> ""]
CallErr(e) == [st |-> "Err", text |-> <<>>, err |-> e]

SseLine(payload) == DataPrefix \o payload \o <<"\n">>
Delta(text) == <<"{">> \o text \o <<"}">>
UsageEvent == <<"{", "#", "}">>

\* response bodies of a streaming call
StreamText ==
    SseLine(Delta(<<"x">>)) \o SseLine(Delta(<<"y">>)) \o SseLine(DoneSentinel)
StreamTwoByte == SseLine(Delta(<<"x", LEAD, CONT>>)) \o SseLine(DoneSentinel)
StreamCrLf ==
    <<":", "\n">> \o DataPrefix \o Delta(<<"x">>) \o <<"\r", "\n", "\n">>
    \o SseLine(UsageEvent)
StreamNoText == SseLine(UsageEvent) \o SseLine(DoneSentinel)
StreamAfterDone ==
    SseLine(Delta(<<"x">>)) \o SseLine(DoneSentinel) \o SseLine(Delta(<<"y">>))
StreamBadJson == SseLine(<<"{", "x">>) \o SseLine(Delta(<<"y">>))
StreamEmpty == <<>>
StreamUsageFirst ==
    SseLine(UsageEvent) \o SseLine(Delta(<<"x">>)) \o SseLine(DoneSentinel)

StreamEmptyDelta ==
    SseLine(Delta(<<>>)) \o SseLine(Delta(<<"x">>)) \o SseLine(DoneSentinel)
\* a blank line, a comment line and a payload that is not JSON between deltas
StreamSkips ==
    SseLine(Delta(<<"x">>)) \o <<"\n">> \o <<":", "k", "\n">>
    \o SseLine(<<"{", "x">>) \o SseLine(Delta(<<"y">>)) \o SseLine(DoneSentinel)

\* usage at the start of the message and again at its end, as in a
\* message_start and a message_delta event
StreamTwoUsages ==
    SseLine(UsageEvent) \o SseLine(Delta(<<"x">>)) \o SseLine(UsageEvent)

\* the streams in which nothing follows a [DONE] line
WellFormedStreams ==
    {StreamText, StreamTwoByte, StreamCrLf, StreamNoText, StreamBadJson,
     StreamEmpty, StreamUsageFirst, StreamEmptyDelta, StreamSkips,
     StreamTwoUsages}
Streams == WellFormedStreams \cup {StreamAfterDone}

\* response bodies of a non-streaming call: the JSON parses or not, the first
\* choice / content block if there is one, and the usage if present
ChatBody(valid, has_content, content, usage) ==
    [valid |-> valid, has_content |-> has_content, content |-> content,
     usage |-> usage]
ChatBodies ==
    {ChatBody(FALSE, FALSE, <<>>, NoUsage),
     ChatBody(TRUE, FALSE, <<>>, EventUsage),
     ChatBody(TRUE, TRUE, <<"x", "y">>, EventUsage),
     ChatBody(TRUE, TRUE, <<"y">>, NoUsage)}

\* a chat entry point is called: the credential is looked up and, if there is
\* one, the request is sent
ChatCall(e) ==
    /\ ppc = "constructed"
    /\ entry' = e
    /\ IF HasCredential(credential)
       THEN /\ http_requests' = http_requests + 1
            /\ ppc' = "sent"
            /\ presult' = presult
       ELSE /\ http_requests' = http_requests
            /\ ppc' = "done"
            /\ presult' = CallErr("credentials")
    /\ UNCHANGED <<prov, credential, has_tracker, bytes, pos, buf, full, sink,
                   last_usage, tracker, done_seen>>
    /\ UNCHANGED notProvVars

\* send().await fails, or the status is not a success
HttpFailure(kind) ==
    /\ ppc = "sent"
    /\ ppc' = "done"
    /\ presult' = CallErr(kind)
    /\ UNCHANGED <<prov, credential, has_tracker, entry, http_requests, bytes,
                   pos, buf, full, sink, last_usage, tracker, done_seen>>
    /\ UNCHANGED notProvVars

\* a non-streaming call gets its response: response.json(), the usage, the
\* first choice; the default chat_with_history_stream then sends it as one token
ChatResponse(body) ==
    /\ ppc = "sent"
    /\ ~(entry = "chat_with_history_stream" /\ SupportsStreaming(prov))
    /\ ppc' = "done"
    /\ IF ~body.valid
       THEN /\ presult' = CallErr("protocol")
            /\ UNCHANGED <<tracker, sink>>
       ELSE /\ tracker' = IF has_tracker /\ body.usage.present
                          THEN TrackerAdd(tracker, body.usage) ELSE tracker
            /\ IF body.has_content
               THEN /\ presult' = CallOk(body.content)
                    /\ sink' = IF entry = "chat_with_history_stream"
                               THEN Append(sink, body.content) ELSE sink
               ELSE /\ presult' = CallErr("empty")
                    /\ sink' = sink
    /\ UNCHANGED <<prov, credential, has_tracker, entry, http_requests, bytes,
                   pos, buf, full, last_usage, done_seen>>
    /\ UNCHANGED notProvVars

\* a streaming call gets a success status: the body will arrive in chunks
StreamOpen(b) ==
    /\ ppc = "sent"
    /\ entry = "chat_with_history_stream"
    /\ SupportsStreaming(prov)
    /\ bytes' = b
    /\ ppc' = "streaming"
    /\ UNCHANGED <<prov, credential, has_tracker, entry, http_requests, pos,
                   buf, full, sink, last_usage, tracker, done_seen, presult>>
    /\ UNCHANGED notProvVars

\* chunk() delivers the next n bytes and the complete lines are processed
RecvChunk(n) ==
    /\ ppc = "streaming"
    /\ n \in 1..(Len(bytes) - pos)
    /\ LET st == ProcessChunk(prov,
                     [StreamState(buf, full, sink, last_usage, tracker,
                                  has_tracker) EXCEPT !.done_seen = done_seen],
                     SubSeq(bytes, pos + 1, pos + n))
       IN  /\ pos' = pos + n
           /\ buf' = st.buf
           /\ full' = st.full
           /\ sink' = st.sink
           /\ last_usage' = st.last_usage
           /\ tracker' = st.tracker
           /\ done_seen' = st.done_seen
           /\ IF st.status = "running"
              THEN ppc' = ppc /\ presult' = presult
              ELSE /\ ppc' = "done"
                   /\ presult' = IF st.status = "ok" THEN CallOk(st.full)
                                 ELSE CallErr("empty")
    /\ UNCHANGED <<prov, credential, has_tracker, entry, http_requests, bytes>>
    /\ UNCHANGED notProvVars

\* chunk() returns None: the body is over
StreamEnd ==
    /\ ppc = "streaming"
    /\ pos = Len(bytes)
    /\ LET st == FinishStream(prov,
                     [StreamState(buf, full, sink, last_usage, tracker,
                                  has_tracker) EXCEPT !.done_seen = done_seen])
       IN  /\ tracker' = st.tracker
           /\ presult' = IF st.status = "ok" THEN CallOk(st.full)
                         ELSE CallErr("empty")
    /\ ppc' = "done"
    /\ UNCHANGED <<prov, credential, has_tracker, entry, http_requests, bytes,
                   pos, buf, full, sink, last_usage, done_seen>>
    /\ UNCHANGED notProvVars

\* chunk() returns an error: the ? operator returns it
TransportError ==
    /\ ppc = "streaming"
    /\ ppc' = "done"
    /\ presult' = CallErr("transport")
    /\ UNCHANGED <<prov, credential, has_tracker, entry, http_requests, bytes,
                   pos, buf, full, sink, last_usage, tracker, done_seen>>
    /\ UNCHANGED notProvVars

ProviderStep ==
    \/ \E e \in EntryPoints : ChatCall(e)
    \/ \E kind \in {"transport", "http"} : HttpFailure(kind)
    \/ \E body \in ChatBodies : ChatResponse(body)
    \/ \E b \in Streams : StreamOpen(b)
    \/ \E n \in 1..Len(bytes) : RecvChunk(n)
    \/ StreamEnd
    \/ TransportError

-----------------------------------------------------------------------------
(* The usage tracker.  The clones of a UsageTracker share four atomic      *)
(* counters; add performs four fetch_adds one after the other, and the     *)
(* adds of concurrent callers interleave between them.                     *)

MaxCallers == 3
Callers == 1..MaxCallers

TokenUsage(p, c, t) ==
    [prompt_tokens |-> p, completion_tokens |-> c, total_tokens |-> t]

TokenUsages == {TokenUsage(3, 2, 5), TokenUsage(0, 7, 7), TokenUsage(1, 0, 4)}

\* the fetch_adds of UsageTracker::add, in program order
AddOrder ==
    <<"prompt_tokens", "completion_tokens", "total_tokens", "request_count">>

\* an add that lands only on a counter nobody has touched yet
FetchAddUntouchedOnly(cell, val) == IF cell = 0 THEN val ELSE cell

\* AtomicU64::fetch_add: one indivisible read-modify-write
fetch_add(cell, val) == cell + val

\* one caller performs its next fetch_add
AddStep(c) ==
    /\ add_pc[c] < Len(AddOrder)
    /\ LET field == AddOrder[add_pc[c] + 1]
           val   == IF field = "request_count" THEN 1 ELSE add_usage[c][field]
       IN  atomics' = [atomics EXCEPT ![field] = fetch_add(@, val)]
    /\ add_pc' = [add_pc EXCEPT ![c] = @ + 1]
    /\ UNCHANGED add_usage
    /\ UNCHANGED notTrackerVars

\* UsageTracker::snapshot
snapshot ==
    TokenUsage(atomics.prompt_tokens, atomics.completion_tokens,
               atomics.total_tokens)

\* UsageTracker::requests
requests == atomics.request_count

TrackerStep == \E c \in Callers : AddStep(c)

-----------------------------------------------------------------------------
(* The file tools.  A path is a record [abs, segs]; a canonical path is the *)
(* sequence of its segments from the root.  The content of a file is a      *)
(* sequence of characters.                                                  *)

RelPath(segs) == [abs |-> FALSE, segs |-> segs]
AbsPath(segs) == [abs |-> TRUE, segs |-> segs]

\* SecurityPolicy.workspace_dir
workspace_dir == <<"ws">>

\* the tree: /ws/a.txt is a regular file, /ws/link a symlink to /etc/passwd
TargetFile == <<"ws", "a.txt">>
OutsideFile == <<"etc", "passwd">>
SymlinkInWorkspace == <<"ws", "link">>
Directories == {<<>>, <<"ws">>, <<"etc">>}
RegularFiles == {TargetFile, OutsideFile}
OutsideContent == <<"s">>

NoPath == <<"<unresolved>">>

IsPrefix(p, s) == Len(p) <= Len(s) /\ SubSeq(s, 1, Len(p)) = p

\* SecurityPolicy::is_path_allowed: the syntactic check
is_path_allowed(path) ==
    /\ \A i \in 1..Len(path.segs) : path.segs[i] # ".."
    /\ path.abs => IsPrefix(workspace_dir, path.segs)

\* SecurityPolicy::is_resolved_path_allowed: the check on the canonical path
is_resolved_path_allowed(canonical) == IsPrefix(workspace_dir, canonical)

\* Path::join: an absolute argument replaces the base
Join(base, path) == IF path.abs THEN path.segs ELSE base \o path.segs

\* the lexical part of canonicalize: "." is dropped, ".." removes a segment
RECURSIVE Normalize(_, _)
Normalize(segs, acc) ==
    IF segs = <<>> THEN acc
    ELSE IF Head(segs) = "." THEN Normalize(Tail(segs), acc)
    ELSE IF Head(segs) = ".."
         THEN Normalize(Tail(segs),
                        IF acc = <<>> THEN acc ELSE SubSeq(acc, 1, Len(acc) - 1))
    ELSE Normalize(Tail(segs), Append(acc, Head(segs)))

\* tokio::fs::canonicalize: symlinks followed, NoPath when nothing is there
canonicalize(full_path) ==
    LET n == Normalize(full_path, <<>>) IN
    IF n = SymlinkInWorkspace THEN OutsideFile
    ELSE IF n \in Directories \cup RegularFiles THEN n
    ELSE NoPath

\* does pat occur in s at position i
MatchesAt(s, pat, i) ==
    i + Len(pat) - 1 <= Len(s) /\ SubSeq(s, i, i + Len(pat) - 1) = pat

\* str::matches: the starts of the disjoint matches, found left to right
RECURSIVE MatchStarts(_, _, _)
MatchStarts(s, pat, i) ==
    IF i + Len(pat) - 1 > Len(s) THEN <<>>
    ELSE IF MatchesAt(s, pat, i)
         THEN <<i>> \o MatchStarts(s, pat, i + (IF pat = <<>> THEN 1 ELSE Len(pat)))
    ELSE MatchStarts(s, pat, i + 1)

\* content.matches(old_string).count()
MatchCount(content, old_string) == Len(MatchStarts(content, old_string, 1))

\* content.replacen(old_string, new_string, 1)
replacen(content, old_string, new_string) ==
    LET ms == MatchStarts(content, old_string, 1) IN
    IF ms = <<>> THEN content
    ELSE SubSeq(content, 1, ms[1] - 1) \o new_string
         \o SubSeq(content, ms[1] + Len(old_string), Len(content))

NoFileError == <<>>

\* the arguments of a file_patch call and of a search_files call; given holds
\* the parameters present in the JSON arguments
PatchCall(path, old_string, new_string) ==
    [tool |-> "file_patch", given |-> {"path", "old_string", "new_string"},
     path |-> path, old_string |-> old_string, new_string |-> new_string,
     pattern |-> ""]
SearchCall(path, pattern) ==
    [tool |-> "search_files", given |-> {"path", "pattern"},
     path |-> path, old_string |-> <<>>, new_string |-> <<>>,
     pattern |-> pattern]
Without(call, param) == [call EXCEPT !.given = @ \ {param}]

RequestedPaths ==
    {RelPath(<<"a.txt">>), RelPath(<<"..", "..", "etc", "passwd">>),
     AbsPath(<<"etc", "passwd">>), RelPath(<<"link">>),
     RelPath(<<"missing.txt">>), RelPath(<<".">>)}

OldStrings == {<<"a">>, <<"b">>, <<"a", "a">>, <<>>}
NewStrings == {<<"c">>, <<>>}
FileContents ==
    {<<>>, <<"a">>, <<"a", "b">>, <<"a", "a", "a">>, <<"a", "b", "a">>,
     <<"b", "a", "a", "a", "a">>}

PatchCalls ==
    {PatchCall(p, <<"a">>, <<"c">>) : p \in RequestedPaths}
    \cup {PatchCall(RelPath(<<"a.txt">>), o, n) : o \in OldStrings, n \in NewStrings}
    \cup {Without(PatchCall(RelPath(<<"a.txt">>), <<"a">>, <<"c">>), "old_string")}

\* a pattern is the character it matches, or "(" which is no regex
SearchCalls ==
    {SearchCall(p, "a") : p \in RequestedPaths}
    \cup {SearchCall(RelPath(<<".">>), "("),
          Without(SearchCall(RelPath(<<"link">>), "a"), "path"),
          Without(SearchCall(RelPath(<<".">>), "a"), "pattern")}

FileCalls == PatchCalls \cup SearchCalls
FileTasks == {1, 2}

FileOk(success, output, error) ==
    [kind |-> "Ok", success |-> success, output |-> output, error |-> error]
FileErr(e) == [kind |-> "Err", success |-> FALSE, output |-> <<>>, error |-> e]
NoFileResult == [kind |-> "none", success |-> FALSE, output |-> <<>>, error |-> <<>>]

\* a policy check or a file-system call, with its argument and what it returned
Op(name, arg, ret) == [op |-> name, arg |-> arg, ret |-> ret]

\* the first required parameter that is missing, "" when none is
MissingParam(call) ==
    LET required == IF call.tool = "file_patch"
                    THEN <<"path", "old_string", "new_string">>
                    ELSE <<"pattern">>
        missing  == {i \in 1..Len(required) : required[i] \notin call.given}
    IN  IF missing = {} THEN ""
        ELSE required[CHOOSE i \in missing : \A j \in missing : i <= j]

\* the path a call asks for: search_files takes "." when none is given
RequestedPath(call) ==
    IF call.tool = "search_files" /\ "path" \notin call.given
    THEN RelPath(<<".">>) ELSE call.path

\* regex::Regex::new succeeds
ValidRegex(pattern) == pattern # "("

\* the call is finished with this result
Finish(c, r) ==
    /\ fresult' = [fresult EXCEPT ![c] = r]
    /\ fpc' = [fpc EXCEPT ![c] = "done"]

\* execute up to its first await: the parameters, the syntactic check and,
\* in search_files, the regex
FileBegin(c) ==
    /\ fpc[c] = "start"
    /\ LET call == fcalls[c]
           path == RequestedPath(call)
       IN  IF MissingParam(call) # ""
           THEN /\ Finish(c, FileErr(<<"Missing parameter", MissingParam(call)>>))
                /\ UNCHANGED fops
           ELSE /\ fops' = [fops EXCEPT ![c] =
                       Append(@, Op("is_path_allowed", path, is_path_allowed(path)))]
                /\ IF ~is_path_allowed(path)
                   THEN Finish(c, FileOk(FALSE, <<>>,
                                  <<"Path not allowed by security policy">>))
                   ELSE IF call.tool = "search_files" /\ ~ValidRegex(call.pattern)
                   THEN Finish(c, FileOk(FALSE, <<>>, <<"Invalid regex">>))
                   ELSE /\ fpc' = [fpc EXCEPT ![c] = "canonicalize"]
                        /\ UNCHANGED fresult
    /\ UNCHANGED <<files, fcalls, resolved, new_content>>
    /\ UNCHANGED notFileVars

\* an execute that trusts the canonical path without checking it
AfterCanonicalizeUnchecked(canonical) == [ops |-> <<>>, allowed |-> TRUE]

\* what execute does with the canonical path: the check on the resolved path
AfterCanonicalize(canonical) ==
    [ops     |-> <<Op("is_resolved_path_allowed", canonical,
                      is_resolved_path_allowed(canonical))>>,
     allowed |-> is_resolved_path_allowed(canonical)]

\* canonicalize returns and the resolved path is checked
FileCanonicalize(c) ==
    /\ fpc[c] = "canonicalize"
    /\ LET full_path == Join(workspace_dir, RequestedPath(fcalls[c]))
           canonical == canonicalize(full_path)
           gate      == AfterCanonicalize(canonical)
       IN  IF canonical = NoPath
           THEN /\ fops' = [fops EXCEPT ![c] =
                       Append(@, Op("canonicalize", full_path, NoPath))]
                /\ Finish(c, FileOk(FALSE, <<>>, <<"Cannot resolve path">>))
                /\ UNCHANGED resolved
           ELSE /\ fops' = [fops EXCEPT ![c] =
                       Append(@, Op("canonicalize", full_path, canonical))
                       \o gate.ops]
                /\ IF ~gate.allowed
                   THEN /\ Finish(c, FileOk(FALSE, <<>>,
                                     <<"Resolved path escapes workspace">>))
                        /\ UNCHANGED resolved
                   ELSE /\ resolved' = [resolved EXCEPT ![c] = canonical]
                        /\ fpc' = [fpc EXCEPT ![c] =
                              IF fcalls[c].tool = "file_patch" THEN "read"
                              ELSE "walk"]
                        /\ UNCHANGED fresult
    /\ UNCHANGED <<files, fcalls, new_content>>
    /\ UNCHANGED notFileVars

\* file_patch: read_to_string returns, the matches are counted and the new
\* content is computed
PatchRead(c) ==
    /\ fpc[c] = "read"
    /\ LET call == fcalls[c] IN
       IF resolved[c] \notin DOMAIN files
       THEN /\ fops' = [fops EXCEPT ![c] =
                   Append(@, Op("read_to_string", resolved[c], <<"Err">>))]
            /\ Finish(c, FileOk(FALSE, <<>>, <<"Failed to read file">>))
            /\ UNCHANGED new_content
       ELSE LET content == files[resolved[c]]
                count   == MatchCount(content, call.old_string)
            IN  /\ fops' = [fops EXCEPT ![c] =
                       Append(@, Op("read_to_string", resolved[c], content))]
                /\ IF count = 0
                   THEN /\ Finish(c, FileOk(FALSE, <<>>,
                                     <<"old_string not found in file">>))
                        /\ UNCHANGED new_content
                   ELSE IF count > 1
                   THEN /\ Finish(c, FileOk(FALSE, <<>>,
                                     <<"old_string found times", count>>))
                        /\ UNCHANGED new_content
                   ELSE /\ new_content' = [new_content EXCEPT ![c] =
                              replacen(content, call.old_string, call.new_string)]
                        /\ fpc' = [fpc EXCEPT ![c] = "write"]
                        /\ UNCHANGED fresult
    /\ UNCHANGED <<files, fcalls, resolved>>
    /\ UNCHANGED notFileVars

\* file_patch: tokio::fs::write returns Ok
PatchWrite(c) ==
    /\ fpc[c] = "write"
    /\ files' = [files EXCEPT ![resolved[c]] = new_content[c]]
    /\ fops' = [fops EXCEPT ![c] =
          Append(@, Op("write", resolved[c], new_content[c]))]
    /\ Finish(c, FileOk(TRUE, <<"Patched", Len(new_content[c])>>, NoFileError))
    /\ UNCHANGED <<fcalls, resolved, new_content>>
    /\ UNCHANGED notFileVars

\* file_patch: tokio::fs::write returns an error
PatchWriteFails(c) ==
    /\ fpc[c] = "write"
    /\ fops' = [fops EXCEPT ![c] = Append(@, Op("write", resolved[c], <<"Err">>))]
    /\ Finish(c, FileOk(FALSE, <<>>, <<"Failed to write file">>))
    /\ UNCHANGED <<files, fcalls, resolved, new_content>>
    /\ UNCHANGED notFileVars

\* the regular files search_recursive reads under dir: symlinks are neither
\* directories nor files for DirEntry::file_type and are skipped
FilesUnder(dir) ==
    {f \in RegularFiles : IsPrefix(dir, f) /\ f # dir /\ f # SymlinkInWorkspace}

\* search_files: the walk of search_recursive and the result
SearchWalk(c) ==
    /\ fpc[c] = "walk"
    /\ LET dir   == resolved[c]
           found == IF dir \in Directories THEN FilesUnder(dir) ELSE {}
           hits  == {f \in found :
                        \E i \in 1..Len(files[f]) : files[f][i] = fcalls[c].pattern}
           match_count == Cardinality(hits)
       IN  /\ fops' = [fops EXCEPT ![c] =
                  (@ \o <<Op("read_dir", dir, <<>>)>>)
                  \o (IF TargetFile \in found
                      THEN <<Op("read_to_string", TargetFile, files[TargetFile])>>
                      ELSE <<>>)]
           /\ Finish(c, IF match_count = 0
                        THEN FileOk(TRUE, <<"No matches found.">>, NoFileError)
                        ELSE FileOk(TRUE, <<"matches", match_count>>, NoFileError))
    /\ UNCHANGED <<files, fcalls, resolved, new_content>>
    /\ UNCHANGED notFileVars

FileStep ==
    \E c \in FileTasks :
        \/ FileBegin(c)
        \/ FileCanonicalize(c)
        \/ PatchRead(c)
        \/ PatchWrite(c)
        \/ PatchWriteFails(c)
        \/ SearchWalk(c)

-----------------------------------------------------------------------------
(* A session: the turns of one AgentState, one after the other, with the   *)
(* /clear command between them.  A message is told from the others by the  *)
(* number it was pushed with; what a turn pushes is what                   *)
(* agent_turn_with_events pushes.                                          *)

MaxTurns == 2
MaxTrimLen == 53

\* the n messages pushed after the first `from` ones, user and assistant in turn
RECURSIVE Pushed(_, _)
Pushed(from, n) ==
    IF n = 0 THEN <<>>
    ELSE Append(Pushed(from, n - 1),
                ChatMessage(IF (from + n) % 2 = 1 THEN "user" ELSE "assistant",
                            from + n))

\* the system prompt installed by run()
StartupPrompt == ChatMessage("system", 0)

\* the numbers of earlier messages an idle session may hold
PriorCounts == {0, 1, MAX_HISTORY_MESSAGES - 1, MAX_HISTORY_MESSAGES}

\* trim_history is called on a history
ApplyTrim ==
    /\ tpc = "trim"
    /\ history' = trim_history(untrimmed)
    /\ tpc' = "trimmed"
    /\ UNCHANGED <<iteration, provider_calls, script, response, tool_calls,
                   handles, tool_results, completion, turn_result,
                   terminal_event>>
    /\ UNCHANGED notTurnVars

TrimStep == ApplyTrim

NoSessionFile == [exists |-> FALSE, messages |-> <<>>]

\* session::update as handle_message calls it: the file of the session id
\* afterwards (its encoding is modelled with the session store)
SessionUpdate(file, messages) == [exists |-> TRUE, messages |-> messages]

\* handle_message pushes the user message and starts the loop
SessionUserMessage ==
    /\ tpc = "idle"
    /\ turns < MaxTurns
    /\ turns' = turns + 1
    /\ history' = Append(history, ChatMessage("user", msg_seq + 1))
    /\ msg_seq' = msg_seq + 1
    /\ iteration' = 0
    /\ tpc' = "running"
    /\ terminal_event' = "none"
    /\ UNCHANGED <<provider_calls, script, response, tool_calls, handles,
                   tool_results, completion, turn_result, untrimmed>>
    /\ UNCHANGED notTurnSessionVars

\* the provider call fails: the turn returns Err and handle_message sends Error
SessionProviderError ==
    /\ tpc = "running"
    /\ ~LoopExhausted(iteration)
    /\ tpc' = "idle"
    /\ terminal_event' = "Error"
    /\ UNCHANGED <<history, iteration, provider_calls, script, response,
                   tool_calls, handles, tool_results, completion, turn_result>>
    /\ UNCHANGED notTurnVars

\* a reply with tool calls: the reply and the tool results are pushed
SessionToolIteration ==
    /\ tpc = "running"
    /\ ~LoopExhausted(iteration)
    /\ history' = history \o <<ChatMessage("assistant", msg_seq + 1),
                               ChatMessage("user", msg_seq + 2)>>
    /\ msg_seq' = msg_seq + 2
    /\ iteration' = iteration + 1
    /\ UNCHANGED <<tpc, provider_calls, script, response, tool_calls, handles,
                   tool_results, completion, turn_result, terminal_event,
                   untrimmed, turns>>
    /\ UNCHANGED notTurnSessionVars

\* a reply without tool calls: it is pushed, the turn returns Ok and
\* handle_message trims the history and sends Done
SessionFinalReply ==
    /\ tpc = "running"
    /\ ~LoopExhausted(iteration)
    /\ history' = trim_history(Append(history, ChatMessage("assistant", msg_seq + 1)))
    /\ msg_seq' = msg_seq + 1
    /\ session_file' = SessionUpdate(session_file, history')
    /\ tpc' = "idle"
    /\ terminal_event' = "Done"
    /\ UNCHANGED <<iteration, provider_calls, script, response, tool_calls,
                   handles, tool_results, completion, turn_result, untrimmed,
                   turns>>
    /\ UNCHANGED notTurnSessionSavedVars

\* the loop ends: the turn returns the 'exceeded' error, handle_message sends Error
SessionExceeded ==
    /\ tpc = "running"
    /\ LoopExhausted(iteration)
    /\ tpc' = "idle"
    /\ terminal_event' = "Error"
    /\ UNCHANGED <<history, iteration, provider_calls, script, response,
                   tool_calls, handles, tool_results, completion, turn_result>>
    /\ UNCHANGED notTurnVars

\* /clear while the agent is idle: history.retain(|m| m.role == "system")
SessionClear ==
    /\ tpc = "idle"
    /\ history' = SelectSeq(history, LAMBDA m : m.role = "system")
    /\ UNCHANGED <<tpc, iteration, provider_calls, script, response, tool_calls,
                   handles, tool_results, completion, turn_result,
                   terminal_event>>
    /\ UNCHANGED notTurnVars

SessionStep ==
    \/ SessionUserMessage
    \/ SessionProviderError
    \/ SessionToolIteration
    \/ SessionFinalReply
    \/ SessionExceeded
    \/ SessionClear

-----------------------------------------------------------------------------
(* parse_tool_calls on responses put together from free text, well-formed  *)
(* blocks and marker pairs whose content is not JSON.                      *)

MaxSegments == 3

FreeText(tokens) == [kind |-> "text", tokens |-> tokens]
Block(inner) == [kind |-> "block", tokens |-> <<OPEN>> \o inner \o <<CLOSE>>]
BadBlock(inner) == [kind |-> "bad", tokens |-> <<OPEN>> \o inner \o <<CLOSE>>]

\* free text: plain, with blanks around it and a stray end marker in it, blank
FreeTexts ==
    {FreeText(<<Text("a")>>), FreeText(<<WS, Text("b"), CLOSE, NL>>),
     FreeText(<<WS, NL>>)}

\* well-formed blocks, the second with blanks around its JSON
Blocks ==
    {Block(<<Json("web_fetch", "http://ok")>>),
     Block(<<NL, Json("file_patch", "{}"), WS>>)}

\* marker pairs whose content is not JSON: broken JSON, nothing, two values
BadBlocks ==
    {BadBlock(<<BAD>>), BadBlock(<<>>),
     BadBlock(<<Json("web_fetch", "http://ok"), Text("x")>>)}

\* a start marker that its piece does not close
Unterminated(inner) == [kind |-> "open", tokens |-> <<OPEN>> \o inner]

Unterminateds ==
    {Unterminated(<<Json("web_fetch", "http://ok"), NL>>), Unterminated(<<>>)}

SegmentKinds == FreeTexts \cup Blocks \cup BadBlocks \cup Unterminateds

\* the responses of at most MaxSegments pieces; two pieces of free text next
\* to each other would be one piece
Responses ==
    UNION {{r \in [1..n -> SegmentKinds] :
               \A i \in 1..(n - 1) : ~(r[i].kind = "text" /\ r[i + 1].kind = "text")}
           : n \in 0..MaxSegments}

\* the response as the string handed to parse_tool_calls
RECURSIVE Render(_)
Render(segs) ==
    IF segs = <<>> THEN <<>> ELSE Head(segs).tokens \o Render(Tail(segs))

\* parse_tool_calls is called on the response
ApplyParse ==
    /\ parse_pc = "call"
    /\ parse_result' = parse_tool_calls(Render(segments))
    /\ parse_pc' = "returned"
    /\ UNCHANGED segments
    /\ UNCHANGED notParseVars

ParseStep == ApplyParse

-----------------------------------------------------------------------------
(* The UI loop: App::event_loop hands the AgentState to one spawned task   *)
(* per turn and takes it back through agent_return_rx.                     *)

MaxUiTurns == 3

UiTasks == 1..MaxUiTurns

\* what can be typed before Enter: a message or a slash command
UiInputs == {"hello", "/clear", "/model"}

SlashCommands == {"/clear", "/model"}

\* mpsc::channel::<AgentState>(1)
AgentReturnCapacity == 1

\* the tasks that hold an AgentState: spawned and not yet past their send
LiveTasks == {t \in DOMAIN ui_tasks : ui_tasks[t] \in {1, 2, 3}}

\* the tasks inside handle_message
TasksInFlight == {t \in DOMAIN ui_tasks : ui_tasks[t] \in {1, 2}}

\* a take() that leaves the value in the Option
AfterTakeKeeping(opt) == opt

\* Option::take: the Option is None afterwards
AfterTake(opt) == "None"

\* a loop that takes the agent back and still counts the task as running
TryRecvOkStillRunning(running) == [agent_opt |-> "Some", agent_running |-> running]

\* Ok(returned_agent) => { agent_opt = Some(returned_agent); agent_running = false; }
TryRecvOk(running) == [agent_opt |-> "Some", agent_running |-> FALSE]

\* agent_return_rx.try_recv() at the top of the loop
UiTryRecv ==
    /\ agent_running
    /\ agent_return_q # <<>>
    /\ agent_opt' = TryRecvOk(agent_running).agent_opt
    /\ agent_running' = TryRecvOk(agent_running).agent_running
    /\ agent_return_q' = Tail(agent_return_q)
    /\ UNCHANGED <<ui_input, ui_tasks, agent_history>>
    /\ UNCHANGED notUiVars

\* KeyCode::Char(c) if !agent_running
UiType(text) ==
    /\ ~agent_running
    /\ ui_input = ""
    /\ ui_input' = text
    /\ UNCHANGED <<agent_opt, agent_running, ui_tasks, agent_return_q,
                   agent_history>>
    /\ UNCHANGED notUiVars

\* KeyCode::Enter if !agent_running, on a slash command
UiSlashCommand ==
    /\ ~agent_running
    /\ ui_input \in SlashCommands
    /\ ui_input' = ""
    /\ agent_history' =
           IF ui_input = "/clear" /\ agent_opt = "Some" THEN 0 ELSE agent_history
    /\ UNCHANGED <<agent_opt, agent_running, ui_tasks, agent_return_q>>
    /\ UNCHANGED notUiVars

\* KeyCode::Enter if !agent_running, on a message: the agent is moved into a
\* spawned task when the UI holds it
UiEnter ==
    /\ ~agent_running
    /\ ui_input # ""
    /\ ui_input \notin SlashCommands
    /\ ui_input' = ""
    /\ IF agent_opt = "Some"
       THEN /\ \E t \in UiTasks :
                  /\ ui_tasks[t] = 0
                  /\ \A u \in 1..(t - 1) : ui_tasks[u] # 0
                  /\ ui_tasks' = [ui_tasks EXCEPT ![t] = 1]
            /\ agent_opt' = AfterTake(agent_opt)
            /\ agent_running' = TRUE
       ELSE UNCHANGED <<agent_opt, agent_running, ui_tasks>>
    /\ UNCHANGED <<agent_return_q, agent_history>>
    /\ UNCHANGED notUiVars

\* the task: handle_message pushes the user message
UiTaskPushUser(t) ==
    /\ ui_tasks[t] = 1
    /\ ui_tasks' = [ui_tasks EXCEPT ![t] = 2]
    /\ agent_history' = agent_history + 1
    /\ UNCHANGED <<agent_opt, agent_running, ui_input, agent_return_q>>
    /\ UNCHANGED notUiVars

\* the task: the turn ends, with an assistant message pushed and Done sent or
\* with Error sent; handle_message returns
UiTaskTurn(t, pushed) ==
    /\ ui_tasks[t] = 2
    /\ ui_tasks' = [ui_tasks EXCEPT ![t] = 3]
    /\ agent_history' = agent_history + pushed
    /\ agent_events' = Append(agent_events,
                              IF pushed = 1 THEN AgentEvent("Done", "")
                              ELSE AgentEvent("Error", ""))
    /\ UNCHANGED <<agent_opt, agent_running, ui_input, agent_return_q>>
    /\ UNCHANGED notUiEventsVars

\* the task: return_tx.send(ag).await, then the task ends
UiTaskReturn(t) ==
    /\ ui_tasks[t] = 3
    /\ Len(agent_return_q) < AgentReturnCapacity
    /\ agent_return_q' = Append(agent_return_q, "agent")
    /\ ui_tasks' = [ui_tasks EXCEPT ![t] = 4]
    /\ UNCHANGED <<agent_opt, agent_running, ui_input, agent_history>>
    /\ UNCHANGED notUiVars

UiStep ==
    \/ UiTryRecv
    \/ \E text \in UiInputs : UiType(text)
    \/ UiSlashCommand
    \/ UiEnter
    \/ \E t \in UiTasks : UiTaskPushUser(t)
    \/ \E t \in UiTasks, pushed \in {0, 1} : UiTaskTurn(t, pushed)
    \/ \E t \in UiTasks : UiTaskReturn(t)

-----------------------------------------------------------------------------
(* The session store (src/session.rs).  A string is a sequence of          *)
(* characters; a session file holds the JSON text of a Session.            *)

MaxClock == 2

SessionIds == {"s1", "s2"}
Models == {"gpt-4", "claude"}

QUOTE == "\""
BACKSLASH == "\\"
NEWLINE == "\n"

\* message lists with contents that JSON has to escape
MessageLists ==
    {<<>>,
     <<ChatMessage("system", <<"a">>)>>,
     <<ChatMessage("system", <<"a">>), ChatMessage("user", <<BACKSLASH, "n">>)>>,
     <<ChatMessage("system", <<>>), ChatMessage("user", <<NEWLINE>>),
       ChatMessage("assistant", <<QUOTE, "a", BACKSLASH>>)>>}

\* a serializer that writes every character as it is
RECURSIVE EscapeNothing(_)
EscapeNothing(str) ==
    IF str = <<>> THEN <<>> ELSE <<Head(str)>> \o EscapeNothing(Tail(str))

\* serde_json writing the inside of a string literal
RECURSIVE Escape(_)
Escape(str) ==
    IF str = <<>> THEN <<>>
    ELSE (IF Head(str) = QUOTE THEN <<BACKSLASH, QUOTE>>
          ELSE IF Head(str) = BACKSLASH THEN <<BACKSLASH, BACKSLASH>>
          ELSE IF Head(str) = NEWLINE THEN <<BACKSLASH, "n">>
          ELSE <<Head(str)>>) \o Escape(Tail(str))

\* serde_json reading the inside of a string literal
RECURSIVE Unescape(_)
Unescape(lit) ==
    IF lit = <<>> THEN <<>>
    ELSE IF Head(lit) = BACKSLASH /\ Len(lit) >= 2
         THEN <<IF lit[2] = "n" THEN NEWLINE ELSE lit[2]>>
              \o Unescape(Tail(Tail(lit)))
         ELSE <<Head(lit)>> \o Unescape(Tail(lit))

\* struct Session
Session(id, created_at, updated_at, model, messages) ==
    [id |-> id, created_at |-> created_at, updated_at |-> updated_at,
     model |-> model, messages |-> messages]

NoSession == Session("", 0, 0, "", <<>>)

\* serde_json::to_string_pretty(&session): the fields in declaration order
to_string_pretty(session) ==
    <<<<"id", session.id>>, <<"created_at", session.created_at>>,
      <<"updated_at", session.updated_at>>, <<"model", session.model>>,
      <<"messages", [i \in 1..Len(session.messages) |->
                        <<<<"role", session.messages[i].role>>,
                          <<"content", Escape(session.messages[i].content)>>>>]>>>>

\* serde_json::from_str::<Session>(&json)
from_str(json) ==
    Session(json[1][2], json[2][2], json[3][2], json[4][2],
            [i \in 1..Len(json[5][2]) |->
                ChatMessage(json[5][2][i][1][2], Unescape(json[5][2][i][2][2]))])

NoFile == [exists |-> FALSE, text |-> <<>>]
FileWith(text) == [exists |-> TRUE, text |-> text]

StoreOk(session) == [st |-> "Ok", session |-> session]
StoreErr == [st |-> "Err", session |-> NoSession]

StoreCall(op, id, model, messages, ret) ==
    [op |-> op, id |-> id, model |-> model, messages |-> messages, ret |-> ret]

\* an update that stamps the session with the current time
CreatedAtNow(file, now) == now

\* update: created_at of the existing file, or now_iso() when there is none
CreatedAt(file, now) ==
    IF file.exists THEN from_str(file.text).created_at ELSE now

\* load(workspace_dir, id)
load(dir, id) ==
    IF dir[id].exists THEN StoreOk(from_str(dir[id].text)) ELSE StoreErr

\* time passes
StoreTick ==
    /\ clock < MaxClock
    /\ clock' = clock + 1
    /\ UNCHANGED <<store_files, store_op>>
    /\ UNCHANGED notStoreVars

\* save(workspace_dir, id, model, messages)
StoreSave(id, model, messages) ==
    /\ store_files' = [store_files EXCEPT ![id] =
           FileWith(to_string_pretty(Session(id, clock, clock, model, messages)))]
    /\ store_op' = StoreCall("save", id, model, messages, StoreOk(NoSession))
    /\ UNCHANGED clock
    /\ UNCHANGED notStoreVars

\* update(workspace_dir, id, model, messages)
StoreUpdate(id, model, messages) ==
    /\ store_files' = [store_files EXCEPT ![id] =
           FileWith(to_string_pretty(
               Session(id, CreatedAt(store_files[id], clock), clock, model,
                       messages)))]
    /\ store_op' = StoreCall("update", id, model, messages, StoreOk(NoSession))
    /\ UNCHANGED clock
    /\ UNCHANGED notStoreVars

\* load(workspace_dir, id)
StoreLoad(id) ==
    /\ store_op' = StoreCall("load", id, "", <<>>, load(store_files, id))
    /\ UNCHANGED <<store_files, clock>>
    /\ UNCHANGED notStoreVars

\* delete(workspace_dir, id)
StoreDelete(id) ==
    /\ store_files' = [store_files EXCEPT ![id] = NoFile]
    /\ store_op' = StoreCall("delete", id, "", <<>>, StoreOk(NoSession))
    /\ UNCHANGED clock
    /\ UNCHANGED notStoreVars

StoreStep ==
    \/ StoreTick
    \/ \E id \in SessionIds, model \in Models, messages \in MessageLists :
           StoreSave(id, model, messages)
    \/ \E id \in SessionIds, model \in Models, messages \in MessageLists :
           StoreUpdate(id, model, messages)
    \/ \E id \in SessionIds : StoreLoad(id)
    \/ \E id \in SessionIds : StoreDelete(id)

-----------------------------------------------------------------------------
(* search_files: the walk of search_recursive over a tree, line by line,   *)
(* and the cap on the number of matches.                                   *)

MAX_MATCHES == 100

MaxEntries == 2

\* a directory entry; a line is TRUE when the regex matches it
FileEntry(name, lines, large) ==
    [kind |-> "file", name |-> name, lines |-> lines, large |-> large,
     entries |-> <<>>]
DirEntry(name, entries) ==
    [kind |-> "dir", name |-> name, lines |-> <<>>, large |-> FALSE,
     entries |-> entries]

\* n matching lines, every third one followed by a line that does not match
LinesWith(n) ==
    [i \in 1..(n + n \div 3) |-> i % 4 # 0]

MatchingLineCounts == {0, 1, MAX_MATCHES - 1, MAX_MATCHES, MAX_MATCHES + 1}

\* the entries a directory may hold: files, a file over the size limit,
\* a hidden file, a build directory and a subdirectory
EntryKinds ==
    {FileEntry("a.txt", LinesWith(n), FALSE) : n \in MatchingLineCounts}
    \cup {FileEntry("big.txt", LinesWith(MAX_MATCHES + 1), TRUE),
          FileEntry(".hidden", LinesWith(MAX_MATCHES + 1), FALSE),
          DirEntry("target", <<FileEntry("b.txt", LinesWith(MAX_MATCHES + 1), FALSE)>>),
          DirEntry("sub", <<FileEntry("b.txt", LinesWith(MAX_MATCHES - 1), FALSE),
                            FileEntry("c.txt", LinesWith(1), FALSE)>>)}

Trees == UNION {[1..n -> EntryKinds] : n \in 0..MaxEntries}

\* name.starts_with('.') || name == "target" || name == "node_modules"
Skipped(name) == name \in {".hidden", ".git", "target", "node_modules"}

SearchState(results, match_count) ==
    [results |-> results, match_count |-> match_count]

\* a walk that never finds the cap reached
AtCapNever(match_count) == FALSE

\* *match_count >= max
AtCap(match_count) == match_count >= MAX_MATCHES

\* for (line_num, line) in content.lines().enumerate()
RECURSIVE SearchLines(_, _, _, _)
SearchLines(name, lines, i, st) ==
    IF i > Len(lines) \/ AtCap(st.match_count) THEN st
    ELSE SearchLines(name, lines, i + 1,
             IF lines[i]
             THEN SearchState(Append(st.results, <<name, i>>), st.match_count + 1)
             ELSE st)

\* search_recursive: while let Ok(Some(entry)) = entries.next_entry().await
RECURSIVE search_recursive(_, _)
search_recursive(entries, st) ==
    IF entries = <<>> \/ AtCap(st.match_count) THEN st
    ELSE LET dirent == Head(entries) IN
         IF Skipped(dirent.name) THEN search_recursive(Tail(entries), st)
         ELSE IF dirent.kind = "dir"
         THEN search_recursive(Tail(entries), search_recursive(dirent.entries, st))
         ELSE IF dirent.large THEN search_recursive(Tail(entries), st)
         ELSE search_recursive(Tail(entries),
                               SearchLines(dirent.name, dirent.lines, 1, st))

\* a result that never mentions the truncation
TruncationNoteOmitted(match_count) == <<>>

\* let truncated = if match_count >= MAX_MATCHES { ... } else { String::new() }
TruncationNote(match_count) ==
    IF match_count >= MAX_MATCHES
    THEN <<"... truncated at", MAX_MATCHES, "matches">> ELSE <<>>

\* the end of execute: the output built from the walk
SearchOutput(st) ==
    IF st.match_count = 0
    THEN [count |-> 0, truncated |-> <<>>, results |-> <<>>]
    ELSE [count |-> st.match_count, truncated |-> TruncationNote(st.match_count),
          results |-> st.results]

\* execute from the walk on
ApplySearch ==
    /\ search_pc = "call"
    /\ search_out' = SearchOutput(search_recursive(search_tree, SearchState(<<>>, 0)))
    /\ search_pc' = "returned"
    /\ UNCHANGED search_tree
    /\ UNCHANGED notSearchVars

SearchStep == ApplySearch

-----------------------------------------------------------------------------
(* Specifications                                                          *)

\* one call of handle_message, from the state run() constructs
InitTurn ==
    /\ tpc = "idle"
    /\ history = <<ChatMessage("system", SystemPrompt)>>
    /\ iteration = 0
    /\ provider_calls = 0
    /\ script = <<>>
    /\ response = <<>>
    /\ tool_calls = <<>>
    /\ handles = <<>>
    /\ tool_results = <<>>
    /\ completion = <<>>
    /\ turn_result = NoResult
    /\ terminal_event = "none"
    /\ spc = "idle"
    /\ deltas = <<>>
    /\ sent_n = 0
    /\ stream_q = <<>>
    /\ fwd_pc = "none"
    /\ fwd_token = NoToken
    /\ abort_called = FALSE
    /\ event_q = <<>>
    /\ observed = <<>>
    /\ lost = <<>>
    /\ prov = "none"
    /\ credential = NoKey
    /\ has_tracker = FALSE
    /\ entry = "none"
    /\ ppc = "none"
    /\ http_requests = 0
    /\ bytes = <<>>
    /\ pos = 0
    /\ buf = <<>>
    /\ full = <<>>
    /\ sink = <<>>
    /\ last_usage = NoUsage
    /\ tracker = ZeroTracker
    /\ done_seen = FALSE
    /\ presult = NoCallResult
    /\ atomics = ZeroTracker
    /\ add_usage = <<>>
    /\ add_pc = <<>>
    /\ files = <<>>
    /\ fcalls = <<>>
    /\ fpc = <<>>
    /\ resolved = <<>>
    /\ new_content = <<>>
    /\ fops = <<>>
    /\ fresult = <<>>
    /\ untrimmed = <<>>
    /\ turns = 0
    /\ msg_seq = 0
    /\ segments = <<>>
    /\ parse_pc = "none"
    /\ parse_result = [text |-> <<>>, calls |-> <<>>]
    /\ agent_events = <<>>
    /\ agent_opt = "None"
    /\ agent_running = FALSE
    /\ ui_input = ""
    /\ ui_tasks = <<>>
    /\ agent_return_q = <<>>
    /\ agent_history = 0
    /\ session_file = [exists |-> FALSE, messages |-> <<>>]
    /\ store_files = <<>>
    /\ clock = 0
    /\ store_op = <<>>
    /\ search_tree = <<>>
    /\ search_pc = "none"
    /\ search_out = [count |-> 0, truncated |-> <<>>, results |-> <<>>]
    /\ observer_events = <<>>

TurnNext == TurnStep

SpecTurn == InitTurn /\ [][TurnNext]_vars

\* one streaming provider call: the channel is made, the forwarder spawned
\* and the provider called with a stream of deltas
InitStream ==
    /\ tpc = "none"
    /\ history = <<>>
    /\ iteration = 0
    /\ provider_calls = 0
    /\ script = <<>>
    /\ response = <<>>
    /\ tool_calls = <<>>
    /\ handles = <<>>
    /\ tool_results = <<>>
    /\ completion = <<>>
    /\ turn_result = NoResult
    /\ terminal_event = "none"
    /\ spc = "streaming"
    /\ deltas \in DeltaStreams
    /\ sent_n = 0
    /\ stream_q = <<>>
    /\ fwd_pc = "recv"
    /\ fwd_token = NoToken
    /\ abort_called = FALSE
    /\ event_q = <<>>
    /\ observed = <<>>
    /\ lost = <<>>
    /\ prov = "none"
    /\ credential = NoKey
    /\ has_tracker = FALSE
    /\ entry = "none"
    /\ ppc = "none"
    /\ http_requests = 0
    /\ bytes = <<>>
    /\ pos = 0
    /\ buf = <<>>
    /\ full = <<>>
    /\ sink = <<>>
    /\ last_usage = NoUsage
    /\ tracker = ZeroTracker
    /\ done_seen = FALSE
    /\ presult = NoCallResult
    /\ atomics = ZeroTracker
    /\ add_usage = <<>>
    /\ add_pc = <<>>
    /\ files = <<>>
    /\ fcalls = <<>>
    /\ fpc = <<>>
    /\ resolved = <<>>
    /\ new_content = <<>>
    /\ fops = <<>>
    /\ fresult = <<>>
    /\ untrimmed = <<>>
    /\ turns = 0
    /\ msg_seq = 0
    /\ segments = <<>>
    /\ parse_pc = "none"
    /\ parse_result = [text |-> <<>>, calls |-> <<>>]
    /\ agent_events = <<>>
    /\ agent_opt = "None"
    /\ agent_running = FALSE
    /\ ui_input = ""
    /\ ui_tasks = <<>>
    /\ agent_return_q = <<>>
    /\ agent_history = 0
    /\ session_file = [exists |-> FALSE, messages |-> <<>>]
    /\ store_files = <<>>
    /\ clock = 0
    /\ store_op = <<>>
    /\ search_tree = <<>>
    /\ search_pc = "none"
    /\ search_out = [count |-> 0, truncated |-> <<>>, results |-> <<>>]
    /\ observer_events = <<>>

StreamNext == StreamStep

SpecStream == InitStream /\ [][StreamNext]_vars

\* one chat call on a provider as its constructor leaves it
InitProvider ==
    /\ tpc = "none"
    /\ history = <<>>
    /\ iteration = 0
    /\ provider_calls = 0
    /\ script = <<>>
    /\ response = <<>>
    /\ tool_calls = <<>>
    /\ handles = <<>>
    /\ tool_results = <<>>
    /\ completion = <<>>
    /\ turn_result = NoResult
    /\ terminal_event = "none"
    /\ spc = "idle"
    /\ deltas = <<>>
    /\ sent_n = 0
    /\ stream_q = <<>>
    /\ fwd_pc = "none"
    /\ fwd_token = NoToken
    /\ abort_called = FALSE
    /\ event_q = <<>>
    /\ observed = <<>>
    /\ lost = <<>>
    /\ prov \in Providers
    /\ \E api_key \in ApiKeys : credential = NewCredential(prov, api_key)
    /\ has_tracker \in BOOLEAN
    /\ entry = "none"
    /\ ppc = "constructed"
    /\ http_requests = 0
    /\ bytes = <<>>
    /\ pos = 0
    /\ buf = <<>>
    /\ full = <<>>
    /\ sink = <<>>
    /\ last_usage = NoUsage
    /\ tracker = ZeroTracker
    /\ done_seen = FALSE
    /\ presult = NoCallResult
    /\ atomics = ZeroTracker
    /\ add_usage = <<>>
    /\ add_pc = <<>>
    /\ files = <<>>
    /\ fcalls = <<>>
    /\ fpc = <<>>
    /\ resolved = <<>>
    /\ new_content = <<>>
    /\ fops = <<>>
    /\ fresult = <<>>
    /\ untrimmed = <<>>
    /\ turns = 0
    /\ msg_seq = 0
    /\ segments = <<>>
    /\ parse_pc = "none"
    /\ parse_result = [text |-> <<>>, calls |-> <<>>]
    /\ agent_events = <<>>
    /\ agent_opt = "None"
    /\ agent_running = FALSE
    /\ ui_input = ""
    /\ ui_tasks = <<>>
    /\ agent_return_q = <<>>
    /\ agent_history = 0
    /\ session_file = [exists |-> FALSE, messages |-> <<>>]
    /\ store_files = <<>>
    /\ clock = 0
    /\ store_op = <<>>
    /\ search_tree = <<>>
    /\ search_pc = "none"
    /\ search_out = [count |-> 0, truncated |-> <<>>, results |-> <<>>]
    /\ observer_events = <<>>

ProviderNext == ProviderStep

SpecProvider == InitProvider /\ [][ProviderNext]_vars

\* MaxCallers tasks, each about to call add on its clone of a new tracker
InitTracker ==
    /\ tpc = "none"
    /\ history = <<>>
    /\ iteration = 0
    /\ provider_calls = 0
    /\ script = <<>>
    /\ response = <<>>
    /\ tool_calls = <<>>
    /\ handles = <<>>
    /\ tool_results = <<>>
    /\ completion = <<>>
    /\ turn_result = NoResult
    /\ terminal_event = "none"
    /\ spc = "idle"
    /\ deltas = <<>>
    /\ sent_n = 0
    /\ stream_q = <<>>
    /\ fwd_pc = "none"
    /\ fwd_token = NoToken
    /\ abort_called = FALSE
    /\ event_q = <<>>
    /\ observed = <<>>
    /\ lost = <<>>
    /\ prov = "none"
    /\ credential = NoKey
    /\ has_tracker = FALSE
    /\ entry = "none"
    /\ ppc = "none"
    /\ http_requests = 0
    /\ bytes = <<>>
    /\ pos = 0
    /\ buf = <<>>
    /\ full = <<>>
    /\ sink = <<>>
    /\ last_usage = NoUsage
    /\ tracker = ZeroTracker
    /\ done_seen = FALSE
    /\ presult = NoCallResult
    /\ atomics = ZeroTracker
    /\ add_usage \in [Callers -> TokenUsages]
    /\ add_pc = [c \in Callers |-> 0]
    /\ files = <<>>
    /\ fcalls = <<>>
    /\ fpc = <<>>
    /\ resolved = <<>>
    /\ new_content = <<>>
    /\ fops = <<>>
    /\ fresult = <<>>
    /\ untrimmed = <<>>
    /\ turns = 0
    /\ msg_seq = 0
    /\ segments = <<>>
    /\ parse_pc = "none"
    /\ parse_result = [text |-> <<>>, calls |-> <<>>]
    /\ agent_events = <<>>
    /\ agent_opt = "None"
    /\ agent_running = FALSE
    /\ ui_input = ""
    /\ ui_tasks = <<>>
    /\ agent_return_q = <<>>
    /\ agent_history = 0
    /\ session_file = [exists |-> FALSE, messages |-> <<>>]
    /\ store_files = <<>>
    /\ clock = 0
    /\ store_op = <<>>
    /\ search_tree = <<>>
    /\ search_pc = "none"
    /\ search_out = [count |-> 0, truncated |-> <<>>, results |-> <<>>]
    /\ observer_events = <<>>

TrackerNext == TrackerStep

SpecTracker == InitTracker /\ [][TrackerNext]_vars

\* the tool calls of one model response, dispatched concurrently on a
\* workspace that holds one file and a symlink leading out of it
InitFile ==
    /\ tpc = "none"
    /\ history = <<>>
    /\ iteration = 0
    /\ provider_calls = 0
    /\ script = <<>>
    /\ response = <<>>
    /\ tool_calls = <<>>
    /\ handles = <<>>
    /\ tool_results = <<>>
    /\ completion = <<>>
    /\ turn_result = NoResult
    /\ terminal_event = "none"
    /\ spc = "idle"
    /\ deltas = <<>>
    /\ sent_n = 0
    /\ stream_q = <<>>
    /\ fwd_pc = "none"
    /\ fwd_token = NoToken
    /\ abort_called = FALSE
    /\ event_q = <<>>
    /\ observed = <<>>
    /\ lost = <<>>
    /\ prov = "none"
    /\ credential = NoKey
    /\ has_tracker = FALSE
    /\ entry = "none"
    /\ ppc = "none"
    /\ http_requests = 0
    /\ bytes = <<>>
    /\ pos = 0
    /\ buf = <<>>
    /\ full = <<>>
    /\ sink = <<>>
    /\ last_usage = NoUsage
    /\ tracker = ZeroTracker
    /\ done_seen = FALSE
    /\ presult = NoCallResult
    /\ atomics = ZeroTracker
    /\ add_usage = <<>>
    /\ add_pc = <<>>
    /\ \E content \in FileContents :
          files = [f \in RegularFiles |->
                  IF f = TargetFile THEN content ELSE OutsideContent]
    /\ fcalls \in [FileTasks -> FileCalls]
    /\ fpc = [c \in FileTasks |-> "start"]
    /\ resolved = [c \in FileTasks |-> NoPath]
    /\ new_content = [c \in FileTasks |-> <<>>]
    /\ fops = [c \in FileTasks |-> <<>>]
    /\ fresult = [c \in FileTasks |-> NoFileResult]
    /\ untrimmed = <<>>
    /\ turns = 0
    /\ msg_seq = 0
    /\ segments = <<>>
    /\ parse_pc = "none"
    /\ parse_result = [text |-> <<>>, calls |-> <<>>]
    /\ agent_events = <<>>
    /\ agent_opt = "None"
    /\ agent_running = FALSE
    /\ ui_input = ""
    /\ ui_tasks = <<>>
    /\ agent_return_q = <<>>
    /\ agent_history = 0
    /\ session_file = [exists |-> FALSE, messages |-> <<>>]
    /\ store_files = <<>>
    /\ clock = 0
    /\ store_op = <<>>
    /\ search_tree = <<>>
    /\ search_pc = "none"
    /\ search_out = [count |-> 0, truncated |-> <<>>, results |-> <<>>]
    /\ observer_events = <<>>

FileNext == FileStep

SpecFile == InitFile /\ [][FileNext]_vars

\* an idle session that holds the startup prompt and some earlier messages
InitSession ==
    /\ tpc = "idle"
    /\ \E k \in PriorCounts :
          /\ history = <<StartupPrompt>> \o Pushed(0, k)
          /\ msg_seq = k
    /\ iteration = 0
    /\ provider_calls = 0
    /\ script = <<>>
    /\ response = <<>>
    /\ tool_calls = <<>>
    /\ handles = <<>>
    /\ tool_results = <<>>
    /\ completion = <<>>
    /\ turn_result = NoResult
    /\ terminal_event = "none"
    /\ spc = "idle"
    /\ deltas = <<>>
    /\ sent_n = 0
    /\ stream_q = <<>>
    /\ fwd_pc = "none"
    /\ fwd_token = NoToken
    /\ abort_called = FALSE
    /\ event_q = <<>>
    /\ observed = <<>>
    /\ lost = <<>>
    /\ prov = "none"
    /\ credential = NoKey
    /\ has_tracker = FALSE
    /\ entry = "none"
    /\ ppc = "none"
    /\ http_requests = 0
    /\ bytes = <<>>
    /\ pos = 0
    /\ buf = <<>>
    /\ full = <<>>
    /\ sink = <<>>
    /\ last_usage = NoUsage
    /\ tracker = ZeroTracker
    /\ done_seen = FALSE
    /\ presult = NoCallResult
    /\ atomics = ZeroTracker
    /\ add_usage = <<>>
    /\ add_pc = <<>>
    /\ files = <<>>
    /\ fcalls = <<>>
    /\ fpc = <<>>
    /\ resolved = <<>>
    /\ new_content = <<>>
    /\ fops = <<>>
    /\ fresult = <<>>
    /\ untrimmed = <<>>
    /\ turns = 0
    /\ segments = <<>>
    /\ parse_pc = "none"
    /\ parse_result = [text |-> <<>>, calls |-> <<>>]
    /\ agent_events = <<>>
    /\ agent_opt = "None"
    /\ agent_running = FALSE
    /\ ui_input = ""
    /\ ui_tasks = <<>>
    /\ agent_return_q = <<>>
    /\ agent_history = 0
    \* the file as the earlier turns left it: written by the last turn that
    \* ended with Done
    /\ session_file =
           IF Len(history) <= 2 THEN NoSessionFile
           ELSE IF history[Len(history)].role = "assistant"
                THEN SessionUpdate(NoSessionFile, history)
                ELSE SessionUpdate(NoSessionFile, SubSeq(history, 1, Len(history) - 1))
    /\ store_files = <<>>
    /\ clock = 0
    /\ store_op = <<>>
    /\ search_tree = <<>>
    /\ search_pc = "none"
    /\ search_out = [count |-> 0, truncated |-> <<>>, results |-> <<>>]
    /\ observer_events = <<>>

SessionNext == SessionStep

SpecSession == InitSession /\ [][SessionNext]_vars

\* trim_history about to be called on a history, with or without a leading
\* system message
InitTrim ==
    /\ tpc = "trim"
    /\ history = <<>>
    /\ iteration = 0
    /\ provider_calls = 0
    /\ script = <<>>
    /\ response = <<>>
    /\ tool_calls = <<>>
    /\ handles = <<>>
    /\ tool_results = <<>>
    /\ completion = <<>>
    /\ turn_result = NoResult
    /\ terminal_event = "none"
    /\ spc = "idle"
    /\ deltas = <<>>
    /\ sent_n = 0
    /\ stream_q = <<>>
    /\ fwd_pc = "none"
    /\ fwd_token = NoToken
    /\ abort_called = FALSE
    /\ event_q = <<>>
    /\ observed = <<>>
    /\ lost = <<>>
    /\ prov = "none"
    /\ credential = NoKey
    /\ has_tracker = FALSE
    /\ entry = "none"
    /\ ppc = "none"
    /\ http_requests = 0
    /\ bytes = <<>>
    /\ pos = 0
    /\ buf = <<>>
    /\ full = <<>>
    /\ sink = <<>>
    /\ last_usage = NoUsage
    /\ tracker = ZeroTracker
    /\ done_seen = FALSE
    /\ presult = NoCallResult
    /\ atomics = ZeroTracker
    /\ add_usage = <<>>
    /\ add_pc = <<>>
    /\ files = <<>>
    /\ fcalls = <<>>
    /\ fpc = <<>>
    /\ resolved = <<>>
    /\ new_content = <<>>
    /\ fops = <<>>
    /\ fresult = <<>>
    /\ \E n \in 0..MaxTrimLen, prefix \in {<<>>, <<StartupPrompt>>} :
          untrimmed = prefix \o Pushed(0, n)
    /\ turns = 0
    /\ msg_seq = 0
    /\ segments = <<>>
    /\ parse_pc = "none"
    /\ parse_result = [text |-> <<>>, calls |-> <<>>]
    /\ agent_events = <<>>
    /\ agent_opt = "None"
    /\ agent_running = FALSE
    /\ ui_input = ""
    /\ ui_tasks = <<>>
    /\ agent_return_q = <<>>
    /\ agent_history = 0
    /\ session_file = [exists |-> FALSE, messages |-> <<>>]
    /\ store_files = <<>>
    /\ clock = 0
    /\ store_op = <<>>
    /\ search_tree = <<>>
    /\ search_pc = "none"
    /\ search_out = [count |-> 0, truncated |-> <<>>, results |-> <<>>]
    /\ observer_events = <<>>

TrimNext == TrimStep

SpecTrim == InitTrim /\ [][TrimNext]_vars

\* parse_tool_calls about to be called on a response
InitParse ==
    /\ tpc = "none"
    /\ history = <<>>
    /\ iteration = 0
    /\ provider_calls = 0
    /\ script = <<>>
    /\ response = <<>>
    /\ tool_calls = <<>>
    /\ handles = <<>>
    /\ tool_results = <<>>
    /\ completion = <<>>
    /\ turn_result = NoResult
    /\ terminal_event = "none"
    /\ spc = "idle"
    /\ deltas = <<>>
    /\ sent_n = 0
    /\ stream_q = <<>>
    /\ fwd_pc = "none"
    /\ fwd_token = NoToken
    /\ abort_called = FALSE
    /\ event_q = <<>>
    /\ observed = <<>>
    /\ lost = <<>>
    /\ prov = "none"
    /\ credential = NoKey
    /\ has_tracker = FALSE
    /\ entry = "none"
    /\ ppc = "none"
    /\ http_requests = 0
    /\ bytes = <<>>
    /\ pos = 0
    /\ buf = <<>>
    /\ full = <<>>
    /\ sink = <<>>
    /\ last_usage = NoUsage
    /\ tracker = ZeroTracker
    /\ done_seen = FALSE
    /\ presult = NoCallResult
    /\ atomics = ZeroTracker
    /\ add_usage = <<>>
    /\ add_pc = <<>>
    /\ files = <<>>
    /\ fcalls = <<>>
    /\ fpc = <<>>
    /\ resolved = <<>>
    /\ new_content = <<>>
    /\ fops = <<>>
    /\ fresult = <<>>
    /\ untrimmed = <<>>
    /\ turns = 0
    /\ msg_seq = 0
    /\ segments \in Responses
    /\ parse_pc = "call"
    /\ parse_result = [text |-> <<>>, calls |-> <<>>]
    /\ agent_events = <<>>
    /\ agent_opt = "None"
    /\ agent_running = FALSE
    /\ ui_input = ""
    /\ ui_tasks = <<>>
    /\ agent_return_q = <<>>
    /\ agent_history = 0
    /\ session_file = [exists |-> FALSE, messages |-> <<>>]
    /\ store_files = <<>>
    /\ clock = 0
    /\ store_op = <<>>
    /\ search_tree = <<>>
    /\ search_pc = "none"
    /\ search_out = [count |-> 0, truncated |-> <<>>, results |-> <<>>]
    /\ observer_events = <<>>

ParseNext == ParseStep

SpecParse == InitParse /\ [][ParseNext]_vars

\* event_loop is entered with the AgentState and no turn running
InitUi ==
    /\ tpc = "none"
    /\ history = <<>>
    /\ iteration = 0
    /\ provider_calls = 0
    /\ script = <<>>
    /\ response = <<>>
    /\ tool_calls = <<>>
    /\ handles = <<>>
    /\ tool_results = <<>>
    /\ completion = <<>>
    /\ turn_result = NoResult
    /\ terminal_event = "none"
    /\ spc = "idle"
    /\ deltas = <<>>
    /\ sent_n = 0
    /\ stream_q = <<>>
    /\ fwd_pc = "none"
    /\ fwd_token = NoToken
    /\ abort_called = FALSE
    /\ event_q = <<>>
    /\ observed = <<>>
    /\ lost = <<>>
    /\ prov = "none"
    /\ credential = NoKey
    /\ has_tracker = FALSE
    /\ entry = "none"
    /\ ppc = "none"
    /\ http_requests = 0
    /\ bytes = <<>>
    /\ pos = 0
    /\ buf = <<>>
    /\ full = <<>>
    /\ sink = <<>>
    /\ last_usage = NoUsage
    /\ tracker = ZeroTracker
    /\ done_seen = FALSE
    /\ presult = NoCallResult
    /\ atomics = ZeroTracker
    /\ add_usage = <<>>
    /\ add_pc = <<>>
    /\ files = <<>>
    /\ fcalls = <<>>
    /\ fpc = <<>>
    /\ resolved = <<>>
    /\ new_content = <<>>
    /\ fops = <<>>
    /\ fresult = <<>>
    /\ untrimmed = <<>>
    /\ turns = 0
    /\ msg_seq = 0
    /\ segments = <<>>
    /\ parse_pc = "none"
    /\ parse_result = [text |-> <<>>, calls |-> <<>>]
    /\ agent_events = <<>>
    /\ agent_opt = "Some"
    /\ agent_running = FALSE
    /\ ui_input = ""
    /\ ui_tasks = [t \in UiTasks |-> 0]
    /\ agent_return_q = <<>>
    /\ agent_history = 0
    /\ session_file = [exists |-> FALSE, messages |-> <<>>]
    /\ store_files = <<>>
    /\ clock = 0
    /\ store_op = <<>>
    /\ search_tree = <<>>
    /\ search_pc = "none"
    /\ search_out = [count |-> 0, truncated |-> <<>>, results |-> <<>>]
    /\ observer_events = <<>>

UiNext == UiStep

SpecUi == InitUi /\ [][UiNext]_vars

\* the runtime schedules every spawned task that can take a step, and the
\* event loop comes back to its try_recv at least every 50 ms
UiFairness ==
    /\ WF_vars(UiTryRecv)
    /\ \A t \in UiTasks :
          /\ WF_vars(UiTaskPushUser(t))
          /\ WF_vars(\E pushed \in {0, 1} : UiTaskTurn(t, pushed))
          /\ WF_vars(UiTaskReturn(t))

SpecUiLive == InitUi /\ [][UiNext]_vars /\ UiFairness

\* an empty sessions directory
InitStore ==
    /\ tpc = "none"
    /\ history = <<>>
    /\ iteration = 0
    /\ provider_calls = 0
    /\ script = <<>>
    /\ response = <<>>
    /\ tool_calls = <<>>
    /\ handles = <<>>
    /\ tool_results = <<>>
    /\ completion = <<>>
    /\ turn_result = NoResult
    /\ terminal_event = "none"
    /\ spc = "idle"
    /\ deltas = <<>>
    /\ sent_n = 0
    /\ stream_q = <<>>
    /\ fwd_pc = "none"
    /\ fwd_token = NoToken
    /\ abort_called = FALSE
    /\ event_q = <<>>
    /\ observed = <<>>
    /\ lost = <<>>
    /\ prov = "none"
    /\ credential = NoKey
    /\ has_tracker = FALSE
    /\ entry = "none"
    /\ ppc = "none"
    /\ http_requests = 0
    /\ bytes = <<>>
    /\ pos = 0
    /\ buf = <<>>
    /\ full = <<>>
    /\ sink = <<>>
    /\ last_usage = NoUsage
    /\ tracker = ZeroTracker
    /\ done_seen = FALSE
    /\ presult = NoCallResult
    /\ atomics = ZeroTracker
    /\ add_usage = <<>>
    /\ add_pc = <<>>
    /\ files = <<>>
    /\ fcalls = <<>>
    /\ fpc = <<>>
    /\ resolved = <<>>
    /\ new_content = <<>>
    /\ fops = <<>>
    /\ fresult = <<>>
    /\ untrimmed = <<>>
    /\ turns = 0
    /\ msg_seq = 0
    /\ segments = <<>>
    /\ parse_pc = "none"
    /\ parse_result = [text |-> <<>>, calls |-> <<>>]
    /\ agent_events = <<>>
    /\ agent_opt = "None"
    /\ agent_running = FALSE
    /\ ui_input = ""
    /\ ui_tasks = <<>>
    /\ agent_return_q = <<>>
    /\ agent_history = 0
    /\ session_file = [exists |-> FALSE, messages |-> <<>>]
    /\ store_files = [id \in SessionIds |-> NoFile]
    /\ clock = 0
    /\ store_op = StoreCall("none", "", "", <<>>, StoreOk(NoSession))
    /\ search_tree = <<>>
    /\ search_pc = "none"
    /\ search_out = [count |-> 0, truncated |-> <<>>, results |-> <<>>]
    /\ observer_events = <<>>

StoreNext == StoreStep

SpecStore == InitStore /\ [][StoreNext]_vars

\* search_files about to walk a directory
InitSearch ==
    /\ tpc = "none"
    /\ history = <<>>
    /\ iteration = 0
    /\ provider_calls = 0
    /\ script = <<>>
    /\ response = <<>>
    /\ tool_calls = <<>>
    /\ handles = <<>>
    /\ tool_results = <<>>
    /\ completion = <<>>
    /\ turn_result = NoResult
    /\ terminal_event = "none"
    /\ spc = "idle"
    /\ deltas = <<>>
    /\ sent_n = 0
    /\ stream_q = <<>>
    /\ fwd_pc = "none"
    /\ fwd_token = NoToken
    /\ abort_called = FALSE
    /\ event_q = <<>>
    /\ observed = <<>>
    /\ lost = <<>>
    /\ prov = "none"
    /\ credential = NoKey
    /\ has_tracker = FALSE
    /\ entry = "none"
    /\ ppc = "none"
    /\ http_requests = 0
    /\ bytes = <<>>
    /\ pos = 0
    /\ buf = <<>>
    /\ full = <<>>
    /\ sink = <<>>
    /\ last_usage = NoUsage
    /\ tracker = ZeroTracker
    /\ done_seen = FALSE
    /\ presult = NoCallResult
    /\ atomics = ZeroTracker
    /\ add_usage = <<>>
    /\ add_pc = <<>>
    /\ files = <<>>
    /\ fcalls = <<>>
    /\ fpc = <<>>
    /\ resolved = <<>>
    /\ new_content = <<>>
    /\ fops = <<>>
    /\ fresult = <<>>
    /\ untrimmed = <<>>
    /\ turns = 0
    /\ msg_seq = 0
    /\ segments = <<>>
    /\ parse_pc = "none"
    /\ parse_result = [text |-> <<>>, calls |-> <<>>]
    /\ agent_events = <<>>
    /\ agent_opt = "None"
    /\ agent_running = FALSE
    /\ ui_input = ""
    /\ ui_tasks = <<>>
    /\ agent_return_q = <<>>
    /\ agent_history = 0
    /\ session_file = [exists |-> FALSE, messages |-> <<>>]
    /\ store_files = <<>>
    /\ clock = 0
    /\ store_op = <<>>
    /\ search_tree \in Trees
    /\ search_pc = "call"
    /\ search_out = [count |-> 0, truncated |-> <<>>, results |-> <<>>]
    /\ observer_events = <<>>

SearchNext == SearchStep

SpecSearch == InitSearch /\ [][SearchNext]_vars

-----------------------------------------------------------------------------
(* Claims about token forwarding, checked under SpecStream                 *)

\* the forwarder has stopped and nothing is in flight any more
StreamQuiescent ==
    /\ spc = "returned"
    /\ fwd_pc = "cancelled"
    /\ event_q = <<>>

SentTokens == SubSeq(deltas, 1, sent_n)

\* C5: every token the provider sent on the token channel is delivered to the
\* observer as a Token event; none is dropped.
C5_NoTokenDropped == StreamQuiescent => observed = SentTokens

PositionIn(t, seq) == CHOOSE i \in 1..Len(seq) : seq[i] = t

\* C6: Token events reach the observer in the order in which the deltas were
\* received from the network; no two tokens are delivered in swapped order.
C6_TokensInOrder ==
    /\ \A i \in 1..Len(observed) : \E k \in 1..Len(deltas) : deltas[k] = observed[i]
    /\ \A i, j \in 1..Len(observed) :
          i < j => PositionIn(observed[i], deltas) < PositionIn(observed[j], deltas)

C6_Witness ==
    /\ Len(observed) = 3
    /\ observed = deltas
    /\ fwd_pc = "cancelled"

-----------------------------------------------------------------------------
(* Claims about the chat providers, checked under SpecProvider             *)

StreamingCall ==
    entry = "chat_with_history_stream" /\ SupportsStreaming(prov)

\* the streaming call has returned after reading its body (not on a failed
\* request and not on a transport error)
StreamCallReturned ==
    /\ StreamingCall
    /\ ppc = "done"
    /\ presult.err \notin {"credentials", "http", "transport"}

\* the outcome of the call when the whole body arrives as one chunk
OneChunkOutcome(p, body, ht) ==
    LET st0 == StreamState(<<>>, <<>>, <<>>, NoUsage, ZeroTracker, ht)
        st1 == IF body = <<>> THEN st0 ELSE ProcessChunk(p, st0, body)
        st2 == IF st1.status = "running" THEN FinishStream(p, st1) ELSE st1
    IN  [result |-> IF st2.status = "ok" THEN CallOk(st2.full) ELSE CallErr("empty"),
         sink   |-> st2.sink]

\* C7: for a well-formed SSE byte stream, whatever the chunks it arrives in,
\* the returned text and the tokens sent to the sink are those obtained when
\* the stream arrives as one chunk.
C7_ChunkBoundaryInvariant ==
    (StreamCallReturned /\ bytes \in WellFormedStreams) =>
        [result |-> presult, sink |-> sink]
            = OneChunkOutcome(prov, bytes, has_tracker)

\* C8: once a 'data: [DONE]' line has been processed, no delta of a later line
\* or chunk is appended to the result or sent to the token sink.
C8_NothingAfterDone ==
    [][done_seen => (full' = full /\ sink' = sink)]_vars

\* C9: a stream that ends, by [DONE] or by the transport closing, without any
\* text delta extracted makes chat_with_history_stream return an error.
C9_EmptyStreamIsError ==
    (StreamCallReturned /\ full = <<>>) => presult.st = "Err"

\* C10: on a provider constructed without a credential, every chat entry
\* point returns a credentials error before any HTTP request is sent, sends
\* nothing to the token sink and adds nothing to the usage tracker.
C10_NoCredentialNoRequest ==
    credential = NoKey =>
        /\ http_requests = 0
        /\ sink = <<>>
        /\ tracker = ZeroTracker
        /\ ppc \in {"constructed", "done"}
        /\ ppc = "done" => presult = CallErr("credentials")

C10_Witness ==
    /\ credential = NoKey
    /\ ppc = "done"
    /\ has_tracker
    /\ entry = "chat_with_history_stream"

\* the streams in which a usage event comes before the first text delta
UsageBeforeTextStreams == {StreamUsageFirst}

-----------------------------------------------------------------------------
(* Claims about the agent loop, checked under SpecTurn                     *)

\* what the tool-result blocks of each scripted reply have to be
ExpectedBlocks(r) ==
    IF r = ReplyA
    THEN <<Tok("tool_result", "web_fetch", "HTTP 200 OK body"),
           Tok("tool_result", "web_fetch",
               "Error: URL must start with http:// or https://"),
           Tok("tool_result", "unknown", "Task panicked")>>
    ELSE IF r = ReplyB
    THEN <<Tok("tool_result", "web_fetch",
               "Error executing web_fetch: Missing 'url' parameter"),
           Tok("tool_result", "nope", "Unknown tool: nope"),
           Tok("tool_result", "file_patch",
               "Error: Path not allowed by security policy: ../../etc/passwd")>>
    ELSE <<>>

RECURSIVE ExpectedIterations(_)
ExpectedIterations(replies) ==
    IF replies = <<>> THEN <<>>
    ELSE <<ChatMessage("assistant", replies[1]),
           ChatMessage("user", <<Text("[Tool results]"), NL>>
                               \o ExpectedBlocks(replies[1]))>>
         \o ExpectedIterations(Tail(replies))

TurnStartHistory ==
    <<ChatMessage("system", SystemPrompt), ChatMessage("user", UserInput)>>

TurnReturned == tpc \in {"returned", "done"}

IsToolResultsMessage(m) ==
    m.role = "user" /\ m.content # <<>> /\ m.content[1] = Text("[Tool results]")

\* the blocks of a tool-result message
BlocksOf(m) == SubSeq(m.content, 3, Len(m.content))

\* the loop has just pushed the two messages of an iteration
JustPushed ==
    \/ tpc = "call" /\ iteration >= 1
    \/ tpc = "returned" /\ turn_result = Err(ExceededError)

\* C1: when every provider reply carries tool calls, the turn fails with the
\* 'exceeded maximum tool iterations' error after exactly MAX_TOOL_ITERATIONS
\* provider calls (never fewer, never more), and the history then holds, in
\* order, the assistant reply and the tool-result message of every iteration.
C1_ExceededAfterExactlyMax ==
    /\ provider_calls <= MAX_TOOL_ITERATIONS
    /\ turn_result = Err(ExceededError) =>
          provider_calls = MAX_TOOL_ITERATIONS /\ Len(script) = MAX_TOOL_ITERATIONS
    /\ (/\ TurnReturned
        /\ turn_result # Err(ProviderFailure)
        /\ \A i \in 1..Len(script) : script[i] \in ToolReplies)
       => /\ turn_result = Err(ExceededError)
          /\ provider_calls = MAX_TOOL_ITERATIONS
          /\ history = TurnStartHistory \o ExpectedIterations(script)

C1_Witness ==
    /\ tpc = "returned"
    /\ turn_result = Err(ExceededError)
    /\ Len(history) = 2 + 2 * MAX_TOOL_ITERATIONS
    /\ \E i, j \in 1..Len(script) : script[i] = ReplyA /\ script[j] = ReplyB

\* C2: in every iteration with n >= 1 parsed calls the '[Tool results]'
\* message holds exactly n blocks, the i-th being the result of the i-th
\* parsed call, whatever the order in which the tasks ended.
C2_ResultsInParseOrder ==
    /\ tpc = "join" =>
          \A i \in 1..Len(tool_results) :
              tool_results[i] = ExpectedBlocks(response)[i]
    /\ \A m \in 1..Len(history) :
          IsToolResultsMessage(history[m]) =>
             /\ m > 1
             /\ history[m - 1].role = "assistant"
             /\ Len(BlocksOf(history[m]))
                   = Len(parse_tool_calls(history[m - 1].content).calls)
             /\ Len(BlocksOf(history[m])) >= 1
             /\ BlocksOf(history[m]) = ExpectedBlocks(history[m - 1].content)

C2_Witness ==
    /\ JustPushed
    /\ completion = <<3, 1, 2>>
    /\ IsToolResultsMessage(history[Len(history)])
    /\ Len(BlocksOf(history[Len(history)])) = 3

\* C3: a panic of one tool task leaves its siblings running to completion
\* with their own results, gives the panicked call exactly one error block at
\* its own position, and does not fail the turn: the loop goes on to the next
\* provider call.
C3_PanicIsolated ==
    /\ tpc = "join" =>
          \A i \in 1..Len(handles) :
              handles[i].st = "running" => ENABLED TaskRun(i)
    /\ JustPushed =>
          LET blocks == BlocksOf(history[Len(history)]) IN
          /\ Len(blocks) = Len(handles)
          /\ \A i \in 1..Len(handles) :
                IF handles[i].st = "panicked"
                THEN blocks[i] = Tok("tool_result", "unknown", "Task panicked")
                ELSE /\ handles[i].st = "finished"
                     /\ blocks[i] = Tok("tool_result", handles[i].name,
                                        handles[i].output)
          /\ iteration < MAX_TOOL_ITERATIONS => tpc = "call" /\ turn_result = NoResult
    /\ turn_result.st = "Err" => turn_result.v \in {ExceededError, ProviderFailure}

C3_Witness ==
    /\ tpc = "call"
    /\ iteration >= 1
    /\ \E i \in 1..Len(handles) : handles[i].st = "panicked"
    /\ \E i \in 1..Len(handles) : handles[i].st = "finished"
    /\ completion[1] = 3

\* C4: no outcome of a tool execution makes the turn return an error.  A
\* ToolResult with success = false, an Err of execute, a security denial and
\* an unknown tool name (which executes no tool) are rendered as text in the
\* tool-result block, and the loop goes on to the next provider call.
C4_ToolFailuresAreText ==
    /\ tpc = "join" =>
          \A i \in 1..Len(handles) :
              handles[i].st # "running" =>
                 LET c == tool_calls[i]
                     r == ToolExecute(c.name, c.arguments)
                     o == handles[i].output
                 IN  IF c.name \notin Registry
                     THEN o = "Unknown tool: " \o c.name /\ ~handles[i].executed
                     ELSE /\ handles[i].executed
                          /\ r.kind = "Err" =>
                                o = "Error executing " \o c.name \o ": " \o r.error
                          /\ (r.kind = "Ok" /\ ~r.success) =>
                                o = "Error: " \o (IF r.error # NoError
                                                   THEN r.error ELSE r.output)
    /\ \A m \in 1..Len(history) :
          (m > 1 /\ history[m - 1] = ChatMessage("assistant", ReplyB)) =>
              history[m].content
                 = <<Text("[Tool results]"), NL,
                     Tok("tool_result", "web_fetch",
                         "Error executing web_fetch: Missing 'url' parameter"),
                     Tok("tool_result", "nope", "Unknown tool: nope"),
                     Tok("tool_result", "file_patch",
                         "Error: Path not allowed by security policy: ../../etc/passwd")>>
    /\ (TurnReturned /\ turn_result.st = "Err") =>
          \/ turn_result.v = ProviderFailure
          \/ turn_result.v = ExceededError /\ iteration = MAX_TOOL_ITERATIONS
    /\ (tpc = "call" /\ iteration >= 1) => ENABLED (\E r \in Replies : ProviderReply(r))

C4_Witness ==
    /\ tpc = "call"
    /\ iteration >= 1
    /\ response = ReplyB
    /\ history[Len(history)].content[4] = Tok("tool_result", "nope", "Unknown tool: nope")
    /\ \A i \in 1..Len(handles) : handles[i].st = "finished"
    /\ ~handles[2].executed


-----------------------------------------------------------------------------
(* Claims about the usage tracker, checked under SpecTracker               *)

RECURSIVE SumOf(_, _)
SumOf(field, n) ==
    IF n = 0 THEN 0 ELSE add_usage[n][field] + SumOf(field, n - 1)

AllAddsReturned == \A c \in Callers : add_pc[c] = Len(AddOrder)

\* C11: once all of the concurrent add calls have returned, snapshot() holds
\* exactly the sums of their prompt, completion and total token counts and
\* requests() is the number of calls: no update is lost.
C11_NoLostUpdate ==
    AllAddsReturned =>
        /\ snapshot = TokenUsage(SumOf("prompt_tokens", MaxCallers),
                                 SumOf("completion_tokens", MaxCallers),
                                 SumOf("total_tokens", MaxCallers))
        /\ requests = MaxCallers

C11_Witness ==
    /\ AllAddsReturned
    /\ requests = MaxCallers
    /\ \E c, d \in Callers : add_usage[c] # add_usage[d]

-----------------------------------------------------------------------------
(* Claims about the file tools, checked under SpecFile                     *)

FileSystemOps == {"read_to_string", "read_dir", "write"}

\* the syntactic check of the requested path was made, and passed, before
\* step i of call c
SyntacticPassedBefore(c, i) ==
    \E j \in 1..(i - 1) :
        /\ fops[c][j].op = "is_path_allowed"
        /\ fops[c][j].arg = RequestedPath(fcalls[c])
        /\ fops[c][j].ret

\* the canonical path was obtained and its check was made, and passed, before
\* step i of call c
ResolvedPassedBefore(c, i) ==
    \E j \in 1..(i - 1), k \in 1..(i - 1) :
        /\ k < j
        /\ fops[c][k].op = "canonicalize"
        /\ fops[c][j].op = "is_resolved_path_allowed"
        /\ fops[c][j].arg = fops[c][k].ret
        /\ fops[c][j].ret

DeniedAt(c, i) ==
    /\ fops[c][i].op \in {"is_path_allowed", "is_resolved_path_allowed"}
    /\ ~fops[c][i].ret

\* C13: in file_patch and search_files the syntactic check precedes any
\* canonicalization, which happens only if it passed; the check of the
\* canonical path precedes any read, walk or write; nothing is read or written
\* unless both checks passed; a denial by either check is a ToolResult with
\* success = false, never an Err.
C13_ChecksBeforeFileAccess ==
    \A c \in FileTasks :
        /\ \A i \in 1..Len(fops[c]) :
              /\ fops[c][i].op = "canonicalize" => SyntacticPassedBefore(c, i)
              /\ fops[c][i].op = "is_resolved_path_allowed" =>
                    (i > 1 /\ fops[c][i - 1].op = "canonicalize")
              /\ fops[c][i].op \in FileSystemOps =>
                    /\ SyntacticPassedBefore(c, i)
                    /\ ResolvedPassedBefore(c, i)
                    /\ IsPrefix(workspace_dir, fops[c][i].arg)
              /\ DeniedAt(c, i) =>
                    /\ i = Len(fops[c])
                    /\ fpc[c] = "done"
                    /\ fresult[c].kind = "Ok"
                    /\ ~fresult[c].success
        /\ files[OutsideFile] = OutsideContent

C13_Witness ==
    \E c, d \in FileTasks :
        /\ fpc[c] = "done" /\ fpc[d] = "done"
        /\ fcalls[c].tool = "file_patch" /\ fcalls[d].tool = "search_files"
        /\ RequestedPath(fcalls[c]) = RelPath(<<"link">>)
        /\ DeniedAt(c, Len(fops[c]))
        /\ fops[d] # <<>> /\ fops[d][Len(fops[d])].op = "read_to_string"

\* the positions at which old_string occurs in content
Occurrences(content, old_string) ==
    {i \in 1..(Len(content) + 1) : MatchesAt(content, old_string, i)}

\* content with the occurrence of old_string at position i replaced
ReplacedAt(content, old_string, new_string, i) ==
    SubSeq(content, 1, i - 1) \o new_string
    \o SubSeq(content, i + Len(old_string), Len(content))

\* call c is a finished file_patch call whose i-th step read the file
PatchHasRead(c, i) ==
    /\ fcalls[c].tool = "file_patch"
    /\ fpc[c] = "done"
    /\ i \in 1..Len(fops[c])
    /\ fops[c][i].op = "read_to_string"
    /\ fops[c][i].ret # <<"Err">>

Wrote(c) == \E j \in 1..Len(fops[c]) : fops[c][j].op = "write"

\* C14: file_patch counts the occurrences of old_string in the content it
\* read: with none it fails with 'not found' and writes nothing; with k >= 2
\* it fails with an error stating k and writes nothing; with exactly one it
\* writes the content with that occurrence replaced by new_string and reports
\* success.
C14_PatchRequiresUniqueMatch ==
    \A c \in FileTasks : \A i \in 1..Len(fops[c]) :
        PatchHasRead(c, i) =>
            LET content == fops[c][i].ret
                old     == fcalls[c].old_string
                k       == Cardinality(Occurrences(content, old))
                last    == fops[c][Len(fops[c])]
            IN  /\ k = 0 =>
                      /\ ~fresult[c].success
                      /\ fresult[c].error = <<"old_string not found in file">>
                      /\ ~Wrote(c)
                /\ k >= 2 =>
                      /\ ~fresult[c].success
                      /\ fresult[c].error = <<"old_string found times", k>>
                      /\ ~Wrote(c)
                /\ k = 1 =>
                      /\ last.op = "write"
                      /\ last.ret # <<"Err">> =>
                            /\ fresult[c].success
                            /\ last.ret = ReplacedAt(content, old,
                                   fcalls[c].new_string,
                                   CHOOSE p \in Occurrences(content, old) : TRUE)

\* the content call c read, <<"Err">> when it read nothing
ContentRead(c) ==
    IF \E i \in 1..Len(fops[c]) : fops[c][i].op = "read_to_string"
    THEN fops[c][CHOOSE i \in 1..Len(fops[c]) : fops[c][i].op = "read_to_string"].ret
    ELSE <<"Err">>

\* old_string occurs exactly once in content, at the position returned
OnlyOccurrence(content, old_string) ==
    CHOOSE p \in Occurrences(content, old_string) : TRUE

\* calls c and d are two successful patches of the target file whose distinct
\* old_strings each occur once in content, apart from each other
TwoPatchesOf(content, c, d) ==
    /\ c # d
    /\ \A x \in {c, d} :
          /\ fcalls[x].tool = "file_patch"
          /\ fpc[x] = "done"
          /\ fresult[x].success
          /\ resolved[x] = TargetFile
          /\ Cardinality(Occurrences(content, fcalls[x].old_string)) = 1
    /\ fcalls[c].old_string # fcalls[d].old_string
    /\ LET pc == OnlyOccurrence(content, fcalls[c].old_string)
           pd == OnlyOccurrence(content, fcalls[d].old_string)
       IN  pc + Len(fcalls[c].old_string) <= pd
    /\ (ContentRead(c) = content \/ ContentRead(d) = content)

\* C15: when two concurrent file_patch calls on the same file, with distinct
\* old_strings that each occur once and do not overlap, both report success,
\* the final content holds both replacements.
C15_NoPatchLost ==
    \A c, d \in FileTasks : \A content \in FileContents :
        TwoPatchesOf(content, c, d) =>
            files[TargetFile] =
                replacen(replacen(content, fcalls[c].old_string,
                                  fcalls[c].new_string),
                         fcalls[d].old_string, fcalls[d].new_string)

-----------------------------------------------------------------------------
(* Claims about the history, checked under SpecTrim and SpecSession        *)

LastOf(h, n) == SubSeq(h, Len(h) - n + 1, Len(h))

LeadingSystem(h) == h # <<>> /\ h[1].role = "system"

NonSystem(h) == SelectSeq(h, LAMBDA m : m.role # "system")

\* C16: trim_history on a system message followed by n other messages gives,
\* if n > 50, the system message followed by the last 50 of them in order and,
\* if n <= 50, the history unchanged; without a leading system message it
\* keeps exactly the last 50 messages when there are more than 50.
C16_TrimKeepsNewest ==
    tpc = "trimmed" =>
        IF LeadingSystem(untrimmed)
        THEN IF Len(untrimmed) - 1 > MAX_HISTORY_MESSAGES
             THEN history = <<untrimmed[1]>> \o LastOf(untrimmed, MAX_HISTORY_MESSAGES)
             ELSE history = untrimmed
        ELSE IF Len(untrimmed) > MAX_HISTORY_MESSAGES
             THEN history = LastOf(untrimmed, MAX_HISTORY_MESSAGES)
             ELSE history = untrimmed

C16_Witness ==
    /\ tpc = "trimmed"
    /\ LeadingSystem(untrimmed)
    /\ Len(untrimmed) = MAX_HISTORY_MESSAGES + 3
    /\ Len(history) = MAX_HISTORY_MESSAGES + 1
    /\ history[2] = untrimmed[4]

SessionIdleAfterTurn == tpc = "idle" /\ terminal_event \in {"Done", "Error"}

\* C17: whenever a turn has completed, with Done or with Error, and the agent
\* is idle, the history holds at most MAX_HISTORY_MESSAGES non-system messages.
C17_HistoryBoundedWhenIdle ==
    SessionIdleAfterTurn => Len(NonSystem(history)) <= MAX_HISTORY_MESSAGES

\* C18: after any sequence of turns, trims and /clear commands the history
\* begins with the system prompt installed at startup and holds exactly one
\* system-role message.
C18_OneLeadingSystemPrompt ==
    /\ history # <<>>
    /\ history[1] = StartupPrompt
    /\ Len(SelectSeq(history, LAMBDA m : m.role = "system")) = 1

C18_Witness ==
    /\ tpc = "idle"
    /\ terminal_event = "Done"
    /\ turns = MaxTurns
    /\ Len(history) = MAX_HISTORY_MESSAGES + 1
    /\ history[2].content > 1

-----------------------------------------------------------------------------
(* Claims about parse_tool_calls, checked under SpecParse                  *)

\* the calls of the well-formed blocks of a response, in source order
RECURSIVE ExpectedCalls(_)
ExpectedCalls(segs) ==
    IF segs = <<>> THEN <<>>
    ELSE LET json == SelectSeq(Head(segs).tokens, LAMBDA t : t.k = "json")
         IN  (IF Head(segs).kind = "block"
              THEN <<[name |-> json[1].v, arguments |-> json[1].a]>> ELSE <<>>)
             \o ExpectedCalls(Tail(segs))

IsBlank(tokens) == \A i \in 1..Len(tokens) : tokens[i].k \in {"ws", "nl"}

\* the non-blank pieces of free text of a response, trimmed, in source order
RECURSIVE ExpectedTextParts(_)
ExpectedTextParts(segs) ==
    IF segs = <<>> THEN <<>>
    ELSE (IF Head(segs).kind = "text" /\ ~IsBlank(Head(segs).tokens)
          THEN <<Trim(Head(segs).tokens)>> ELSE <<>>)
         \o ExpectedTextParts(Tail(segs))

OnlyTextAndBlocks(segs) ==
    \A i \in 1..Len(segs) : segs[i].kind \in {"text", "block"}

\* C19: on a response made of k well-formed blocks with optional free text
\* before, between and after them, parse_tool_calls returns the k calls in
\* source order with each block's name and arguments, and a narrative made of
\* the non-blank free-text pieces in source order, empty when there is none.
C19_BlocksAndNarrative ==
    (parse_pc = "returned" /\ OnlyTextAndBlocks(segments)) =>
        /\ parse_result.calls = ExpectedCalls(segments)
        /\ parse_result.text = JoinLines(ExpectedTextParts(segments))
        /\ (\A i \in 1..Len(segments) : segments[i].kind = "block") =>
               parse_result.text = <<>>

C19_Witness ==
    /\ parse_pc = "returned"
    /\ Len(segments) = 3
    /\ segments[1].kind = "block" /\ segments[3].kind = "block"
    /\ segments[1] # segments[3]
    /\ segments[2] = FreeText(<<WS, Text("b"), CLOSE, NL>>)
    /\ Len(parse_result.calls) = 2

\* C20: a marker pair whose content is not valid JSON produces no call, and
\* the calls parsed from the well-formed blocks before and after it, and
\* their order, are what they are without it.
C20_MalformedBlockDropped ==
    (parse_pc = "returned" /\ \A i \in 1..Len(segments) : segments[i].kind # "open")
        => parse_result.calls = ExpectedCalls(segments)

\* piece i starts with the first start marker of the response that no end
\* marker follows
UnterminatedAt(i) ==
    /\ i \in 1..Len(segments)
    /\ segments[i].kind = "open"
    /\ \A j \in 1..(i - 1) : segments[j].kind # "open"
    /\ Find(Render(SubSeq(segments, i, Len(segments))), "close") = 0

IsSuffix(s, t) ==
    /\ Len(s) <= Len(t)
    /\ SubSeq(t, Len(t) - Len(s) + 1, Len(t)) = s

\* C21: on a start marker with no end marker after it parse_tool_calls
\* stops: the calls are those of the blocks before the marker and no other,
\* and the response from that marker on is the end of the narrative.
C21_UnterminatedMarkerHalts ==
    \A i \in 1..Len(segments) :
        (parse_pc = "returned" /\ UnterminatedAt(i)) =>
            /\ parse_result.calls = ExpectedCalls(SubSeq(segments, 1, i - 1))
            /\ IsSuffix(Trim(Render(SubSeq(segments, i, Len(segments)))),
                        parse_result.text)

C21_Witness ==
    /\ parse_pc = "returned"
    /\ Len(segments) = 3
    /\ segments[1].kind = "block"
    /\ UnterminatedAt(2)
    /\ segments[2] = Unterminated(<<Json("web_fetch", "http://ok"), NL>>)
    /\ segments[3] = FreeText(<<Text("a")>>)
    /\ Len(parse_result.calls) = 1

C20_Witness ==
    /\ parse_pc = "returned"
    /\ Len(segments) = 3
    /\ segments[1].kind = "block" /\ segments[3].kind = "block"
    /\ segments[1] # segments[3]
    /\ segments[2] = BadBlock(<<BAD>>)
    /\ Len(parse_result.calls) = 2

-----------------------------------------------------------------------------
(* Further claims about the agent loop, checked under SpecTurn             *)

\* the provider has just replied with a response that parses to no call
ReplyWithoutCalls ==
    /\ provider_calls' = provider_calls + 1
    /\ script' # script
    /\ parse_tool_calls(response').calls = <<>>

\* C22: when parsing a response yields no tool call, the iteration appends
\* exactly one assistant message holding the raw response, and the turn
\* returns the narrative text, or the raw response when the narrative is
\* empty; after that no tool is executed and no provider call is made.
C22_NoCallsEndsTurn ==
    [][/\ ReplyWithoutCalls =>
            /\ history' = Append(history, ChatMessage("assistant", response'))
            /\ turn_result'.st = "Ok"
            /\ parse_tool_calls(response').text = <<>> =>
                   turn_result'.v = response'
            /\ parse_tool_calls(response').text # <<>> =>
                   turn_result'.v = parse_tool_calls(response').text
            /\ UNCHANGED <<handles, completion, tool_results, tool_calls>>
       /\ turn_result.st = "Ok" =>
            /\ UNCHANGED <<provider_calls, script, handles, completion,
                           tool_results, tool_calls, turn_result>>
            /\ \A i \in 1..Len(history) : history'[i] = history[i]
            /\ Len(history') = Len(history)]_vars

C22_Witness ==
    /\ tpc = "done"
    /\ terminal_event = "Done"
    /\ iteration = 1
    /\ response = ReplyMalformed
    /\ turn_result = Ok(ReplyMalformed)
    /\ provider_calls = 2
    /\ history[Len(history)] = ChatMessage("assistant", ReplyMalformed)
    /\ Len(history) = 5


IsTerminal(e) == e.ev \in {"Done", "Error"}

TerminalCount(evs) == Len(SelectSeq(evs, IsTerminal))

\* C23: a call of handle_message sends exactly one terminal event, Done or
\* Error; no ToolStart or ToolResult event (no event at all) is sent after
\* it; a turn that exceeds the iteration cap ends with Error.
C23_OneTerminalEvent ==
    /\ TerminalCount(agent_events) <= 1
    /\ \A i \in 1..Len(agent_events) :
           IsTerminal(agent_events[i]) => i = Len(agent_events)
    /\ tpc = "done" =>
           /\ TerminalCount(agent_events) = 1
           /\ turn_result = Err(ExceededError) =>
                  agent_events[Len(agent_events)].ev = "Error"
           /\ turn_result.st = "Ok" =>
                  agent_events[Len(agent_events)].ev = "Done"
    /\ tpc # "done" => TerminalCount(agent_events) = 0

C23_Witness ==
    /\ tpc = "done"
    /\ iteration = MAX_TOOL_ITERATIONS
    /\ turn_result = Err(ExceededError)
    /\ agent_events[Len(agent_events)] = AgentEvent("Error", "")
    /\ \E i \in 1..Len(agent_events) : agent_events[i].ev = "ToolResult"
    /\ \E i \in 1..Len(agent_events) : agent_events[i].ev = "ToolStart"

-----------------------------------------------------------------------------
(* Claims about the UI loop, checked under SpecUi                          *)

\* where the AgentState is: with a task, in the UI's Option, or in the
\* return channel whose receiver the UI loop owns
AgentHolders ==
    Cardinality(LiveTasks) + (IF agent_opt = "Some" THEN 1 ELSE 0)
        + Len(agent_return_q)

\* C24: at most one handle_message task exists at any time; the AgentState
\* is in exactly one place, with the task or on the UI's side; while a turn
\* is in flight the UI holds no AgentState, and no step other than a step of
\* the running task starts a turn or changes the history.
C24_SingleOwner ==
    /\ [](/\ Cardinality(LiveTasks) <= 1
          /\ AgentHolders = 1
          /\ TasksInFlight # {} =>
                 (agent_opt = "None" /\ agent_return_q = <<>> /\ agent_running))
    /\ [][TasksInFlight # {} =>
             /\ \A t \in UiTasks : ui_tasks[t] = 0 => ui_tasks'[t] = 0
             /\ agent_history' # agent_history =>
                    \E t \in TasksInFlight : ui_tasks'[t] # ui_tasks[t]]_vars

C24_Witness ==
    /\ ui_tasks[1] = 4
    /\ ui_tasks[2] = 2
    /\ agent_opt = "None"
    /\ agent_running
    /\ agent_history = 1

-----------------------------------------------------------------------------
(* Claims about the saved session, checked under SpecSession               *)

\* handle_message returns in this step
TurnEnds == tpc = "running" /\ tpc' = "idle"

\* C25: after every turn handled by handle_message the session file of the
\* agent's session id holds exactly the in-memory history as it stands at
\* the end of that turn.
C25_SessionSavedAfterTurn ==
    [][TurnEnds => (session_file'.exists /\ session_file'.messages = history')]_vars

-----------------------------------------------------------------------------
(* Claims about the session store, checked under SpecStore                 *)

\* the step is a call of op on id
Called(op, id) ==
    /\ store_op' # store_op \/ store_files' # store_files
    /\ store_op'.op = op
    /\ store_op'.id = id

\* C26: an update of a session id that has been written before leaves the
\* stored created_at as it was (hence equal to the value written first over
\* any sequence of updates) and replaces model and messages by its arguments.
C26_UpdateKeepsCreatedAt ==
    [][\A id \in SessionIds :
          (Called("update", id) /\ store_files[id].exists) =>
              /\ load(store_files', id).session.created_at
                     = load(store_files, id).session.created_at
              /\ load(store_files', id).session.model = store_op'.model
              /\ load(store_files', id).session.messages = store_op'.messages]_vars

C26_Witness ==
    /\ store_op.op = "update"
    /\ store_op.id = "s1"
    /\ load(store_files, "s1").session.created_at = 0
    /\ load(store_files, "s1").session.updated_at = MaxClock
    /\ load(store_files, "s1").session.model = "claude"
    /\ Len(load(store_files, "s1").session.messages) = 3

\* C27: load after save or update returns the id, the model and the messages
\* written; after delete load fails; delete of an id without a file succeeds
\* and leaves every stored session as it is.
C27_StoreRoundTrip ==
    [][\A id \in SessionIds :
          /\ (Called("save", id) \/ Called("update", id)) =>
                 /\ load(store_files', id).st = "Ok"
                 /\ load(store_files', id).session.id = id
                 /\ load(store_files', id).session.model = store_op'.model
                 /\ load(store_files', id).session.messages = store_op'.messages
          /\ Called("delete", id) =>
                 /\ store_op'.ret.st = "Ok"
                 /\ load(store_files', id).st = "Err"
                 /\ \A other \in SessionIds \ {id} :
                        store_files'[other] = store_files[other]
                 /\ ~store_files[id].exists => store_files' = store_files
          /\ Called("load", id) =>
                 store_op'.ret.st = (IF store_files[id].exists THEN "Ok" ELSE "Err")]_vars

C27_Witness ==
    /\ store_op.op = "load"
    /\ store_op.id = "s2"
    /\ store_op.ret.st = "Ok"
    /\ store_op.ret.session.id = "s2"
    /\ store_op.ret.session.messages =
           <<ChatMessage("system", <<"a">>), ChatMessage("user", <<BACKSLASH, "n">>)>>
    /\ ~store_files["s1"].exists

-----------------------------------------------------------------------------
(* Claims about the search cap, checked under SpecSearch                   *)

\* the number of matching lines in the files the search reads
RECURSIVE MatchingLines(_)
MatchingLines(entries) ==
    IF entries = <<>> THEN 0
    ELSE LET dirent == Head(entries) IN
         (IF Skipped(dirent.name) \/ dirent.large THEN 0
          ELSE IF dirent.kind = "dir" THEN MatchingLines(dirent.entries)
          ELSE Cardinality({i \in 1..Len(dirent.lines) : dirent.lines[i]}))
         + MatchingLines(Tail(entries))

\* C28: search_files never reports more than 100 matching lines, and when
\* the searched tree holds more matching lines than that the output states
\* the truncation.
C28_CapAndTruncation ==
    search_pc = "returned" =>
        /\ Len(search_out.results) <= 100
        /\ search_out.count = Len(search_out.results)
        /\ MatchingLines(search_tree) > 100 => search_out.truncated # <<>>
        /\ MatchingLines(search_tree) <= 100 =>
               search_out.count = MatchingLines(search_tree)

C28_Witness ==
    /\ search_pc = "returned"
    /\ Len(search_tree) = 2
    /\ search_tree[1].kind = "dir" /\ search_tree[1].name = "sub"
    /\ search_tree[2].kind = "file" /\ ~search_tree[2].large
    /\ MatchingLines(search_tree) = 101
    /\ search_out.count = 100
    /\ search_out.truncated # <<>>

-----------------------------------------------------------------------------
(* Further claims about the chat providers, checked under SpecProvider     *)

RECURSIVE Concat(_)
Concat(tokens) ==
    IF tokens = <<>> THEN <<>> ELSE Head(tokens) \o Concat(Tail(tokens))

StreamCallOk ==
    ppc = "done" /\ entry = "chat_with_history_stream" /\ presult.st = "Ok"

\* C29: the string returned by a successful chat_with_history_stream is the
\* concatenation, in order, of the tokens it sent to the sink, and every
\* token sent to the sink is non-empty.
C29_ResultIsConcatOfTokens ==
    StreamCallOk =>
        /\ presult.text = Concat(sink)
        /\ \A i \in 1..Len(sink) : sink[i] # <<>>

\* the lines of a whole body
RECURSIVE SplitLines(_)
SplitLines(body) ==
    LET nl == FindNewline(body, 1) IN
    IF nl = 0 THEN <<>>
    ELSE <<SubSeq(body, 1, nl - 1)>> \o SplitLines(SubSeq(body, nl + 1, Len(body)))

\* the text of a line that carries a text delta, <<>> for any other line
DeltaOfLine(line) ==
    LET l == TrimChars(line)
        n == Len(DataPrefix)
    IN  IF Len(l) >= n + 3 /\ StartsWith(l, DataPrefix) /\ l[n + 1] = "{"
           /\ l[Len(l)] = "}"
           /\ \A i \in (n + 2)..(Len(l) - 1) : l[i] \in {"x", "y"}
        THEN SubSeq(l, n + 2, Len(l) - 1) ELSE <<>>

\* the deltas of a body in source order, the other lines left out
ExpectedDeltas(body) ==
    SelectSeq([i \in 1..Len(SplitLines(body)) |-> DeltaOfLine(SplitLines(body)[i])],
              LAMBDA t : t # <<>>)

\* bodies with lines the parsers skip among lines with deltas
SkipStreams == {StreamSkips, StreamCrLf, StreamBadJson}

\* C30: a data line whose payload is not JSON, a blank line and a comment
\* line contribute no token and no error; the deltas before and after them
\* are delivered as if the line were not there.
C30_SkippedLinesLeaveDeltas ==
    (ppc \in {"streaming", "done"} /\ bytes \in SkipStreams) =>
        /\ \E n \in 0..Len(ExpectedDeltas(bytes)) :
               sink = SubSeq(ExpectedDeltas(bytes), 1, n)
        /\ (ppc = "done" /\ presult.err # "transport") =>
               /\ sink = ExpectedDeltas(bytes)
               /\ presult = CallOk(Concat(ExpectedDeltas(bytes)))

C30_Witness ==
    /\ ppc = "done"
    /\ prov = "anthropic"
    /\ bytes = StreamSkips
    /\ sink = <<<<"x">>, <<"y">>>>
    /\ presult = CallOk(<<"x", "y">>)


(***************************************************************************)
(* C31: within a turn the history only grows by appends                    *)
(***************************************************************************)

\* the messages a step of agent_turn_with_events adds to the history
Appended == SubSeq(history', Len(history) + 1, Len(history'))

\* the two pushes that end an iteration with tool calls: the raw response,
\* markers included, and one user message that starts with "[Tool results]"
IsToolIterationPush(added) ==
    /\ Len(added) = 2
    /\ added[1] = ChatMessage("assistant", response)
    /\ parse_tool_calls(response).calls # <<>>
    /\ added[2].role = "user"
    /\ Len(added[2].content) = 2 + Len(handles)
    /\ SubSeq(added[2].content, 1, 2) = <<Text("[Tool results]"), NL>>
    /\ \A i \in 1..Len(handles) : added[2].content[2 + i].k = "tool_result"

\* the push of a reply without calls, which ends the turn
IsFinalPush(added) ==
    /\ Len(added) = 1
    /\ added[1] = ChatMessage("assistant", response')
    /\ parse_tool_calls(response').calls = <<>>

\* a step that keeps the history as a prefix and appends one of the two
GrowsByAppend ==
    /\ Len(history') >= Len(history)
    /\ SubSeq(history', 1, Len(history)) = history
    /\ \/ Appended = <<>>
       \/ tpc = "join" /\ IsToolIterationPush(Appended)
       \/ tpc = "call" /\ IsFinalPush(Appended)

\* C31: from the push of the user message until agent_turn_with_events
\* returns, every step leaves the history as it is or appends to it, and what
\* it appends is either the raw assistant response followed by one user-role
\* "[Tool results]" message (an iteration with tool calls) or the one
\* assistant message of the reply that ends the turn.
C31_HistoryAppendOnly ==
    [][(tpc \in {"call", "join"}) => GrowsByAppend]_vars

\* a turn that has gone through two iterations with tool calls and is in its
\* third: the history holds the two pairs of pushes after the user message
C31_Witness ==
    /\ tpc = "join"
    /\ iteration = 2
    /\ Len(history) >= 6
    /\ history[Len(history)].role = "user"
    /\ history[Len(history)].content[1] = Text("[Tool results]")
    /\ history[Len(history) - 1] = ChatMessage("assistant", script[Len(script) - 1])


(***************************************************************************)
(* C32: the loop waits for every dispatched task                           *)
(***************************************************************************)

\* a dispatched task that has neither completed nor panicked
SomeTaskRunning == \E i \in 1..Len(handles) : handles[i].st = "running"

\* a step of a tool task: one handle leaves the running state
TaskStep == \E i \in 1..Len(handles) :
                handles[i].st = "running" /\ handles'[i].st # "running"

\* C32: while a dispatched task of the iteration is still running, no step
\* appends to the history or issues a provider call, and a step of a tool
\* task never changes the history.
C32_WaitsForEveryTask ==
    [][/\ SomeTaskRunning =>
            /\ history' = history
            /\ provider_calls' = provider_calls
            /\ tpc' = "join"
       /\ (Len(handles') = Len(handles) /\ TaskStep) => history' = history]_vars

\* the loop has collected the first task of an iteration while a later one
\* is still running, and another task has ended out of order
C32_Witness ==
    /\ tpc = "join"
    /\ Len(handles) = 3
    /\ Len(tool_results) = 1
    /\ handles[2].st = "running"
    /\ handles[3].st # "running"


(***************************************************************************)
(* C33: ToolStart events precede the tasks and their ToolResult events     *)
(***************************************************************************)

\* the events of the current iteration after its Token event
IterationEvents == Tail(agent_events)

\* the number of events of variant ev that name the tool
EventCount(evs, ev, name) ==
    Cardinality({i \in 1..Len(evs) : evs[i] = AgentEvent(ev, name)})

\* the dispatched calls of the name whose task has ended without a panic
FinishedCalls(name) ==
    Cardinality({i \in 1..Len(handles) :
                    handles[i].st = "finished" /\ tool_calls[i].name = name})

\* C33: in every iteration with tool calls the event log holds, right after
\* the Token event, one ToolStart event per parsed call in parse order;
\* they are all there when the first task is spawned, so every ToolResult
\* event comes after all of them, and there is exactly one ToolResult event
\* for each dispatched call whose task has ended without a panic (none for a
\* task that is still running or has panicked).
C33_ToolStartsBeforeResults ==
    (tpc = "join") =>
        LET n == Len(tool_calls) IN
        /\ Len(IterationEvents) >= n
        /\ \A i \in 1..n :
               IterationEvents[i] = AgentEvent("ToolStart", tool_calls[i].name)
        /\ \A i \in (n + 1)..Len(IterationEvents) :
               IterationEvents[i].ev = "ToolResult"
        /\ \A name \in {tool_calls[i].name : i \in 1..n} :
               EventCount(IterationEvents, "ToolResult", name) = FinishedCalls(name)
        /\ Len(IterationEvents) - n =
               Cardinality({i \in 1..n : handles[i].st = "finished"})

\* an iteration of three calls in which one task has panicked and the two
\* others have sent their ToolResult
C33_Witness ==
    /\ tpc = "join"
    /\ Len(tool_calls) = 3
    /\ \E i \in 1..3 : handles[i].st = "panicked"
    /\ Cardinality({i \in 1..3 : handles[i].st = "finished"}) = 2
    /\ Len(agent_events) = 6


(***************************************************************************)
(* C34: no Token event after a ToolStart or terminal event                 *)
(***************************************************************************)

\* C34: in the order in which the events are sent on the event channel, and
\* so received by the observer, no Token event comes after the ToolStart
\* event of its iteration or after the Done or Error event of its turn.
C34_NoTokenAfterLoopEvent ==
    \A i, j \in 1..Len(agent_events) :
        (i < j /\ agent_events[i].ev \in LoopEvents)
            => agent_events[j].ev # "Token"


(***************************************************************************)
(* C35: every turn started from the UI ends, checked under SpecUiLive      *)
(***************************************************************************)

\* the Done and Error events sent so far
TerminalsSent ==
    Cardinality({i \in 1..Len(agent_events) :
                    agent_events[i].ev \in {"Done", "Error"}})

\* the tasks whose handle_message has returned
TasksReturned == {t \in UiTasks : ui_tasks[t] \in {3, 4}}

\* the turn of task t is over: its terminal event is sent, the task has ended,
\* the UI holds the AgentState again and accepts input
TurnOver(t) ==
    /\ ui_tasks[t] = 4
    /\ TerminalsSent = Cardinality(TasksReturned)
    /\ agent_opt = "Some"
    /\ ~agent_running

\* C35: every turn started from the UI eventually ends: the spawned task
\* sends its Done or Error event and hands the AgentState back, and the UI
\* then clears agent_running and holds the AgentState again, ready for input.
\* The AgentState is never lost: at every moment it is with the task, in the
\* return channel or in the UI's Option.
C35_TurnEventuallyEnds ==
    /\ \A t \in UiTasks : (ui_tasks[t] = 1) ~> TurnOver(t)
    /\ [](AgentHolders = 1)

\* the third turn is over, after a turn that ended with Error and one that
\* ended with Done
C35_Witness ==
    /\ TurnOver(3)
    /\ agent_events[1].ev = "Error"
    /\ agent_events[2].ev = "Done"


(***************************************************************************)
(* C36: one tracker update per successful call that reports usage          *)
(***************************************************************************)

\* the body of the streaming call holds an event that carries usage
ReportsUsage(body) ==
    \E i \in 1..Len(body) :
        StartsWith(SubSeq(body, i, Len(body)), SseLine(UsageEvent))

\* the tracker after one add of the usage the bodies of the model report
TrackedOnce == TrackerAdd(ZeroTracker, EventUsage)

\* C36: a successful provider call that reports usage has changed the usage
\* tracker exactly once when it returns: the token counters have grown by the
\* call's usage and the request count by one.  A streaming call is judged by
\* the events of its body; a non-streaming call adds once or, when its
\* response carries no usage, not at all.
C36_TrackedExactlyOnce ==
    (ppc = "done" /\ presult.st = "Ok" /\ has_tracker) =>
        IF StreamingCall
        THEN ReportsUsage(bytes) => tracker = TrackedOnce
        ELSE tracker \in {ZeroTracker, TrackedOnce}


(***************************************************************************)
(* C37: a snapshot taken while adds are running                            *)
(***************************************************************************)

\* the usage record satisfies total_tokens = prompt_tokens + completion_tokens
Consistent(u) == u.total_tokens = u.prompt_tokens + u.completion_tokens

\* C37: when every usage record passed to add is consistent, a snapshot
\* taken at any moment, also between the fetch_adds of a running add, is
\* consistent.
C37_SnapshotConsistent ==
    (\A c \in Callers : Consistent(add_usage[c])) => Consistent(snapshot)


(***************************************************************************)
(* C38: no free text twice in the narrative                                *)
(***************************************************************************)

\* how often the token occurs in the string
CountOf(str, tok) == Cardinality({i \in 1..Len(str) : str[i] = tok})

\* the words of free text of the response
TextTokens(str) == {str[i] : i \in {j \in 1..Len(str) : str[j].k = "text"}}

\* C38: the narrative returned by parse_tool_calls holds every piece of free
\* text of the response at most as often as the response does, also when the
\* response contains an unterminated start marker.
C38_NoTextTwice ==
    parse_pc = "returned" =>
        \A tok \in TextTokens(Render(segments)) :
            CountOf(parse_result.text, tok) <= CountOf(Render(segments), tok)


(***************************************************************************)
(* C39: the success flag of the recorded ToolCall events                   *)
(***************************************************************************)

\* the loop collects the handle of its next call, in parse order
CollectsNext == tpc = "join" /\ Len(tool_results') = Len(tool_results) + 1

\* the handle collected by such a step
Collected == handles[Len(tool_results) + 1]

\* what the step records: for a call that did not panic one ToolCall event
\* whose flag is the outcome of the tool execution, nothing for a panic
RecordsOutcome ==
    IF Collected.st = "panicked" THEN observer_events' = observer_events
    ELSE observer_events' =
             Append(observer_events,
                    [tool |-> Collected.name, success |-> Collected.succeeded])

\* C39: one ObserverEvent::ToolCall is recorded per non-panicked call, in
\* parse order, and its success flag is true exactly when the tool returned
\* a ToolResult with success = true.
C39_SuccessFlagIsOutcome ==
    [][IF CollectsNext THEN RecordsOutcome
       ELSE observer_events' = observer_events]_vars


(***************************************************************************)
(* C40: the truncation note means that something was left out              *)
(***************************************************************************)

\* C40: the output of search_files carries the truncation note only when
\* the searched tree holds a matching line that is not among the results.
C40_NoteOnlyWhenOmitted ==
    (search_pc = "returned" /\ search_out.truncated # <<>>) =>
        MatchingLines(search_tree) > Len(search_out.results)

=============================================================================
